---- MODULE Spec2Model ----
(***************************************************************************)
(* Model of the ffmpeg-fastapi media service: the process execution        *)
(* engine (FFMPEGService.run_command), the probe helpers, the multi-step   *)
(* operations built on them (concat_videos, concat_segments,               *)
(* append_intro_outro, add_captions_to_video) and the caption text         *)
(* wrapping function.                                                      *)
(*                                                                         *)
(* One request is in flight.  Its coroutine call chain is the sequence     *)
(* `stack`: the last element is the frame that runs next, every other      *)
(* element is the point its caller resumes at.  A step of the model runs   *)
(* from one suspension point (an await that really waits: process          *)
(* creation, process exit, network transfer) to the next one.              *)
(***************************************************************************)
EXTENDS Integers, Sequences, FiniteSets, TLC

VARIABLES
    op,          \* the operation the request runs
    nseg,        \* concat_videos: len(request.segments)
    upload,      \* concat_videos: request.upload
    inputs,      \* append_intro_outro: the inputs list [intro, main, outro if p]
    media,       \* what ffprobe would report for each source file
    stack,       \* coroutine frames, innermost last
    exc,         \* the exception being propagated, or NoExc
    cmd,         \* run_command: the command being run
    procs,       \* every run_command invocation so far: command, process status, exit code
    rcRet,       \* run_command's returned (success, stdout, stderr)
    info,        \* get_video_info's returned description
    dims,        \* get_media_dimensions' returned (width, height)
    hasAudio,    \* _has_audio_stream's returned flag
    result,      \* the FFMPEGResult returned by the last service method
    files,       \* the files that exist on disk
    manifest,    \* the content of each concat list file written
    index,       \* concat_videos / append_intro_outro: loop index
    downloaded_paths, \* concat_videos local
    segment_paths,    \* concat_videos local
    target,      \* concat_videos: (target_width, target_height) or NoDims
    normalized_paths, \* append_intro_outro local
    dlRet,       \* download_video_from_url's returned path
    upRet,       \* upload_file_path's returned (key, url)
    steps,       \* the steps the orchestrators have started, in order
    response,    \* what the caller of the operation receives
    captions,    \* add_captions_to_video: the captions argument
    font_size,   \* add_captions_to_video: the font_size argument, 0 for None
    script,      \* the subtitle script written: its Dialogue events
    wtext,       \* _wrap_caption_text applied on its own: the text
    wmax,        \* its max_chars
    wout,        \* its outcome
    fin,         \* a pure function applied on its own: its arguments
    fout,        \* its outcome
    ratio,       \* aspect and crop endpoints: the ratio form field
    background_color, \* aspect endpoint: the background_color form field
    vf,          \* the video filter of the last command built
    now,         \* time.time(), in seconds
    _requests,   \* RateLimiter._requests: rate key -> timestamps of its allowed requests
    _lock,       \* RateLimiter._lock: the request holding it, 0 when free
    reqs,        \* the HTTP requests in flight, one per connection slot
    arrivals,    \* how many requests have arrived
    allowed_log, \* every request is_allowed let through, in order
    download           \* download_video_from_url applied on its own: its call

svars == <<op, nseg, upload, inputs, media, stack, exc, cmd, procs, rcRet,
           info, dims, hasAudio, result, files, manifest, index,
           downloaded_paths, segment_paths, target, normalized_paths,
           dlRet, upRet, steps, response, captions, font_size, script>>

wvars == <<wtext, wmax, wout>>

fvars == <<fin, fout>>

tvars == <<ratio, background_color, vf>>

gvars == <<now, _requests, _lock, reqs, arrivals, allowed_log>>

evars == <<gvars, download>>

vars == <<svars, wvars, fvars, tvars, evars>>

----------------------------------------------------------------------------
(* Bounds *)

MaxSegments == 2
MaxCaptions == 2
MaxTextLen == 6
MaxWidth == 4
MaxHeight == 2160
MaxTimeMs == 30

----------------------------------------------------------------------------
(* Program constants *)

FFMPEG_TIMEOUT == 300
HTTP_400_BAD_REQUEST == 400
HTTP_500_INTERNAL_SERVER_ERROR == 500
HTTP_502_BAD_GATEWAY == 502

----------------------------------------------------------------------------
(* Values *)

NoPath == [kind |-> "none", n |-> 0]
Path(k, i) == [kind |-> k, n |-> i]

\* the text of an error: a process's stderr, the timeout message, str(e)
NoErr == [kind |-> "none", n |-> 0]
StderrOf(k) == [kind |-> "stderr", n |-> k]
TimeoutMessage(t) == [kind |-> "Operation timed out after <n> seconds", n |-> t]
ExceptionText == [kind |-> "str(e)", n |-> 0]
ValueErrorText == [kind |-> "placeholder too large for max width", n |-> 0]

NoExc == [type |-> "none", status |-> 0, msg |-> "", err |-> NoErr]
HTTPException(s, m, e) == [type |-> "HTTPException", status |-> s, msg |-> m, err |-> e]
OSError == [type |-> "OSError", status |-> 0, msg |-> "", err |-> ExceptionText]
CancelledError == [type |-> "CancelledError", status |-> 0, msg |-> "", err |-> NoErr]

NoDims == <<0, 0>>
\* a command: its kind, input and output files, target size, whether the
\* anullsrc input is added, the audio stream it maps ("" for no -map of
\* an audio stream) and whether -shortest is given
NoCmd == [kind |-> "none", in |-> NoPath, out |-> NoPath, w |-> 0, h |-> 0, silent |-> FALSE,
          map_audio |-> "", shortest |-> FALSE]
Cmd(k, i, o, w, h, s) == [kind |-> k, in |-> i, out |-> o, w |-> w, h |-> h, silent |-> s,
                          map_audio |-> "", shortest |-> FALSE]

NoRc == [success |-> FALSE, stdout |-> "", stderr |-> NoErr]
NoInfo == [video |-> FALSE, w |-> 0, h |-> 0, audio |-> FALSE]
NoResult == [success |-> FALSE, output_path |-> NoPath, error |-> NoErr]
FFMPEGResult(s, p, e) == [success |-> s, output_path |-> p, error |-> e]
NoUpload == [key |-> "", url |-> ""]
NoFilter == [kind |-> "none", w |-> 0, h |-> 0, x |-> 0, y |-> 0, color |-> "", fontsize |-> 0]
NoResponse == [kind |-> "none", success |-> FALSE, filename |-> NoPath,
               r2 |-> NoUpload, exc |-> NoExc, result |-> NoResult]

\* what a source file holds: a video stream with dimensions or none, and
\* an audio stream or none
MediaKinds ==
    { [video |-> TRUE,  w |-> 1280, h |-> 720, audio |-> TRUE],
      [video |-> TRUE,  w |-> 640,  h |-> 480, audio |-> FALSE],
      [video |-> FALSE, w |-> 0,    h |-> 0,   audio |-> TRUE] }

Top == stack[Len(stack)]
Below == SubSeq(stack, 1, Len(stack) - 1)
At(l) == Len(stack) > 0 /\ Top = l
Running(l) == At(l) /\ exc = NoExc

OutputPath == Path("output", 0)
ListPath == Path("concat_list", 0)

\* the request's arguments
argvars == <<op, nseg, upload, inputs, media, captions, font_size, wvars, fvars,
             ratio, background_color, evars>>
\* what the operations on several inputs leave alone
reqvars == <<argvars, vf>>
retvars == <<rcRet, info, dims, hasAudio, result, dlRet, upRet>>
locvars == <<index, downloaded_paths, segment_paths, target, normalized_paths, script>>

\* replace the running frame by the frames fs (a call pushes the caller's
\* resumption point and the callee's first suspension point)
Goto(fs) == stack' = Below \o fs
Return == stack' = Below

\* cleanup_file / cleanup_files: remove the files that exist, never raise
cleanup_files(fs, ps) == fs \ ps

----------------------------------------------------------------------------
(* FFMPEGService.run_command *)

\* the frames of a run_command call up to its first await
RunCommandFrames == <<"run_command:create_subprocess_exec">>

\* a process whose command has an output file may have written it,
\* whole or in part, by the time it ends
WrittenBy(c, wrote) == IF wrote /\ c.out # NoPath THEN {c.out} ELSE {}

\* create_subprocess_exec succeeded: the process runs and run_command
\* awaits wait_for(process.communicate(), timeout)
RunCommandSpawn ==
    /\ Running("run_command:create_subprocess_exec")
    /\ procs' = Append(procs, [cmd |-> cmd, status |-> "running", code |-> 0, stdout |-> ""])
    /\ Goto(<<"run_command:wait_for">>)
    /\ UNCHANGED <<reqvars, retvars, locvars, exc, cmd, files, manifest, steps, response>>

\* create_subprocess_exec raised: caught by `except Exception`; the
\* invocation is recorded with no process behind it
RunCommandSpawnError ==
    /\ Running("run_command:create_subprocess_exec")
    /\ procs' = Append(procs, [cmd |-> cmd, status |-> "not_spawned", code |-> 0, stdout |-> ""])
    /\ rcRet' = [success |-> FALSE, stdout |-> "", stderr |-> ExceptionText]
    /\ Return
    /\ UNCHANGED <<reqvars, locvars, exc, cmd, info, dims, hasAudio, result,
                   dlRet, upRet, files, manifest, steps, response>>

\* a run_command that reports success whatever the return code
RunCommandReturn_Always(code, out, err) == [success |-> TRUE, stdout |-> out, stderr |-> err]

\* `success = process.returncode == 0` and the returned triple
RunCommandReturn(code, out, err) == [success |-> code = 0, stdout |-> out, stderr |-> err]

\* communicate() completed within the timeout: success iff returncode == 0,
\* stderr is returned whole
RunCommandExit ==
    /\ Running("run_command:wait_for")
    /\ procs[Len(procs)].status = "running"
    /\ \E code \in {0, 1}, wrote \in BOOLEAN, out \in {"json", "garbage"} :
        /\ (cmd.kind # "ffprobe") => out = "garbage"
        /\ (cmd.out = NoPath) => wrote = FALSE
        /\ procs' = [procs EXCEPT ![Len(procs)] =
                        [@ EXCEPT !.status = "exited", !.code = code,
                                  !.stdout = IF cmd.kind = "ffprobe" /\ code = 0 THEN out ELSE ""]]
        /\ files' = files \cup WrittenBy(cmd, wrote)
        /\ rcRet' = RunCommandReturn(code, IF cmd.kind = "ffprobe" /\ code = 0 THEN out ELSE "",
                                     StderrOf(Len(procs)))
    /\ Return
    /\ UNCHANGED <<reqvars, locvars, exc, cmd, info, dims, hasAudio, result,
                   dlRet, upRet, manifest, steps, response>>

\* a handler that reports the timeout without killing the process
KillOnTimeout_Forgotten(p) == p

\* what the TimeoutError handler does to the process
KillOnTimeout(p) == [p EXCEPT !.status = "killed"]

\* a wait_for without a timeout
TimeoutSet_Never == FALSE

\* `timeout = timeout or settings.FFMPEG_TIMEOUT`: wait_for always gets one
TimeoutSet == TRUE

\* wait_for raised TimeoutError: process.kill() and the timeout message
RunCommandTimeout ==
    /\ TimeoutSet
    /\ Running("run_command:wait_for")
    /\ procs[Len(procs)].status = "running"
    /\ \E wrote \in BOOLEAN :
        /\ (cmd.out = NoPath) => wrote = FALSE
        /\ files' = files \cup WrittenBy(cmd, wrote)
    /\ procs' = [procs EXCEPT ![Len(procs)] = KillOnTimeout(@)]
    /\ rcRet' = [success |-> FALSE, stdout |-> "", stderr |-> TimeoutMessage(FFMPEG_TIMEOUT)]
    /\ Return
    /\ UNCHANGED <<reqvars, locvars, exc, cmd, info, dims, hasAudio, result,
                   dlRet, upRet, manifest, steps, response>>

\* what run_command does to the process when CancelledError is thrown into
\* the await: CancelledError is a BaseException, neither except clause
\* catches it, and there is no finally
KillOnCancel(p) == p

\* the request's task is cancelled while run_command awaits the process
RunCommandCancelled ==
    /\ Running("run_command:wait_for")
    /\ procs[Len(procs)].status = "running"
    /\ procs' = [procs EXCEPT ![Len(procs)] = KillOnCancel(@)]
    /\ exc' = CancelledError
    /\ Return
    /\ UNCHANGED <<reqvars, retvars, locvars, cmd, files, manifest, steps, response>>

----------------------------------------------------------------------------
(* get_video_info, get_media_dimensions, _has_audio_stream *)

ProbeCmd(path) == Cmd("ffprobe", path, NoPath, 0, 0, FALSE)

\* the frames of a get_video_info call up to its first await
GetVideoInfoFrames == <<"get_video_info:run_command">> \o RunCommandFrames

\* the source file a probed path holds
MediaOf(path) == media[path]

\* get_video_info after run_command returned
GetVideoInfoReturn ==
    /\ Running("get_video_info:run_command")
    /\ IF ~rcRet.success
         THEN /\ exc' = HTTPException(HTTP_400_BAD_REQUEST, "Failed to read video info", rcRet.stderr)
              /\ info' = info
         ELSE IF rcRet.stdout # "json"
         THEN /\ exc' = HTTPException(HTTP_400_BAD_REQUEST, "Invalid video file", NoErr)
              /\ info' = info
         ELSE /\ exc' = exc
              /\ info' = MediaOf(cmd.in)
    /\ Return
    /\ UNCHANGED <<reqvars, locvars, cmd, procs, rcRet, dims, hasAudio, result,
                   dlRet, upRet, files, manifest, steps, response>>

\* get_media_dimensions after get_video_info returned
GetMediaDimensionsReturn ==
    /\ Running("get_media_dimensions:get_video_info")
    /\ IF info.video /\ info.w # 0 /\ info.h # 0
         THEN dims' = <<info.w, info.h>> /\ exc' = exc
         ELSE /\ exc' = HTTPException(HTTP_400_BAD_REQUEST, "Could not determine media dimensions", NoErr)
              /\ dims' = dims
    /\ Return
    /\ UNCHANGED <<reqvars, locvars, cmd, procs, rcRet, info, hasAudio, result,
                   dlRet, upRet, files, manifest, steps, response>>

GetMediaDimensionsFrames == <<"get_media_dimensions:get_video_info">> \o GetVideoInfoFrames

\* _has_audio_stream after get_video_info returned
HasAudioStreamReturn ==
    /\ Running("_has_audio_stream:get_video_info")
    /\ hasAudio' = info.audio
    /\ Return
    /\ UNCHANGED <<reqvars, locvars, exc, cmd, procs, rcRet, info, dims, result,
                   dlRet, upRet, files, manifest, steps, response>>

HasAudioStreamFrames == <<"_has_audio_stream:get_video_info">> \o GetVideoInfoFrames

\* frames that neither catch nor clean up: an exception passes through
PassThrough == {"get_video_info:run_command", "get_media_dimensions:get_video_info",
                "_has_audio_stream:get_video_info", "trim_video_segment:_has_audio_stream",
                "trim_video_segment:run_command", "_normalize_video_clip:_has_audio_stream",
                "_normalize_video_clip:run_command",
                "convert_aspect_ratio:get_media_dimensions", "convert_aspect_ratio:run_command",
                "smart_crop_video:get_media_dimensions", "smart_crop_video:run_command",
                "add_text_to_image:_resolve_font_size", "add_text_to_image:run_command",
                "get_video_duration:get_video_info", "extract_last_frame:get_video_duration",
                "extract_last_frame:run_command"}

Propagate ==
    /\ Len(stack) > 0
    /\ exc # NoExc
    /\ Top \in PassThrough
    /\ Return
    /\ UNCHANGED <<reqvars, retvars, locvars, exc, cmd, procs, files, manifest, steps, response>>

----------------------------------------------------------------------------
(* trim_video_segment and _normalize_video_clip *)

\* the trim command: scale/pad to the target, the source's audio stream
\* or the anullsrc input with -shortest
\* a command that always maps the source's audio
AudioMap_Source(has_audio) == "0:a:0"

\* `-map 0:a:0` if has_audio, else `-map 1:a:0`
AudioMap(has_audio) == IF has_audio THEN "0:a:0" ELSE "1:a:0"

TrimCmd(input, output, w, h, has_audio) ==
    [Cmd("trim", input, output, w, h, ~has_audio)
        EXCEPT !.map_audio = AudioMap(has_audio), !.shortest = ~has_audio]

TrimFrames == <<"trim_video_segment:_has_audio_stream">> \o HasAudioStreamFrames

\* trim_video_segment after _has_audio_stream returned: build the command
\* and run it; the call's arguments are those the caller put in cmd
TrimVideoSegmentRun ==
    /\ Running("trim_video_segment:_has_audio_stream")
    /\ cmd' = TrimCmd(cmd.in, segment_paths[Len(segment_paths)], target[1], target[2], hasAudio)
    /\ Goto(<<"trim_video_segment:run_command">> \o RunCommandFrames)
    /\ UNCHANGED <<reqvars, retvars, locvars, exc, procs, files, manifest, steps, response>>

\* a method that reports success without looking for its output file
CommandResult_Unchecked(rc, out, fs) ==
    IF rc.success
      THEN FFMPEGResult(TRUE, out, NoErr)
      ELSE FFMPEGResult(FALSE, NoPath, rc.stderr)

\* `if success and os.path.exists(output_path)` at the end of each method
CommandResult(rc, out, fs) ==
    IF rc.success /\ out \in fs
      THEN FFMPEGResult(TRUE, out, NoErr)
      ELSE FFMPEGResult(FALSE, NoPath, rc.stderr)

TrimVideoSegmentReturn ==
    /\ Running("trim_video_segment:run_command")
    /\ result' = CommandResult(rcRet, cmd.out, files)
    /\ Return
    /\ UNCHANGED <<reqvars, locvars, exc, cmd, procs, rcRet, info, dims, hasAudio,
                   dlRet, upRet, files, manifest, steps, response>>

NormalizeCmd(input, output, w, h, has_audio) ==
    [Cmd("normalize", input, output, w, h, ~has_audio)
        EXCEPT !.map_audio = AudioMap(has_audio), !.shortest = ~has_audio]

NormalizeFrames == <<"_normalize_video_clip:_has_audio_stream">> \o HasAudioStreamFrames

NormalizeVideoClipRun ==
    /\ Running("_normalize_video_clip:_has_audio_stream")
    /\ cmd' = NormalizeCmd(cmd.in, normalized_paths[Len(normalized_paths)],
                           target[1], target[2], hasAudio)
    /\ Goto(<<"_normalize_video_clip:run_command">> \o RunCommandFrames)
    /\ UNCHANGED <<reqvars, retvars, locvars, exc, procs, files, manifest, steps, response>>

NormalizeVideoClipReturn ==
    /\ Running("_normalize_video_clip:run_command")
    /\ result' = CommandResult(rcRet, cmd.out, files)
    /\ Return
    /\ UNCHANGED <<reqvars, locvars, exc, cmd, procs, rcRet, info, dims, hasAudio,
                   dlRet, upRet, files, manifest, steps, response>>

----------------------------------------------------------------------------
(* concat_segments *)

CopyCmd == Cmd("concat_copy", ListPath, OutputPath, 0, 0, FALSE)
ReencodeCmd == Cmd("concat_reencode", ListPath, OutputPath, 0, 0, FALSE)

\* concat_segments up to its first await, entered from the frame that
\* resumes at `cont`: write the manifest and run the stream-copy command,
\* or fail to write it, remove it in the finally and raise
ConcatSegmentsEnter(paths, cont) ==
    \E written \in BOOLEAN :
        IF written
          THEN /\ files' = files \cup {ListPath}
               /\ manifest' = paths
               /\ cmd' = CopyCmd
               /\ exc' = exc
               /\ Goto(<<cont, "concat_segments:copy">> \o RunCommandFrames)
          ELSE /\ files' = cleanup_files(files, {ListPath})
               /\ manifest' = manifest
               /\ cmd' = cmd
               /\ exc' = OSError
               /\ Goto(<<cont>>)

\* a fallback that runs the stream-copy command again
Fallback_Retry == CopyCmd

\* which command follows a failed stream copy
Fallback == ReencodeCmd

\* after the stream-copy run: on failure remove the output and run the
\* re-encode command over the same list file; on success finish
ConcatSegmentsAfterCopy ==
    /\ Running("concat_segments:copy")
    /\ IF ~rcRet.success
         THEN /\ files' = cleanup_files(files, {OutputPath})
              /\ cmd' = Fallback
              /\ Goto(<<"concat_segments:reencode">> \o RunCommandFrames)
              /\ result' = result
         ELSE /\ result' = CommandResult(rcRet, OutputPath, files)
              /\ files' = cleanup_files(files, {ListPath})
              /\ cmd' = cmd
              /\ Return
    /\ UNCHANGED <<reqvars, locvars, exc, procs, rcRet, info, dims, hasAudio,
                   dlRet, upRet, manifest, steps, response>>

\* after the re-encode run: the result is the fallback's
ConcatSegmentsAfterReencode ==
    /\ Running("concat_segments:reencode")
    /\ result' = CommandResult(rcRet, OutputPath, files)
    /\ files' = cleanup_files(files, {ListPath})
    /\ Return
    /\ UNCHANGED <<reqvars, locvars, exc, cmd, procs, rcRet, info, dims, hasAudio,
                   dlRet, upRet, manifest, steps, response>>

\* an exception passes through concat_segments: its finally removes the list
ConcatSegmentsFinally ==
    /\ exc # NoExc
    /\ At("concat_segments:copy") \/ At("concat_segments:reencode")
    /\ files' = cleanup_files(files, {ListPath})
    /\ Return
    /\ UNCHANGED <<reqvars, retvars, locvars, exc, cmd, procs, manifest, steps, response>>

----------------------------------------------------------------------------
(* download_video_from_url and R2Service.upload_file_path *)

SourcePath(i) == Path("concat_src", i)
SegmentPath(i) == Path("concat_seg", i)

\* the remote file was streamed to the scratch path
DownloadOk ==
    /\ Running("download_video_from_url:stream")
    /\ files' = files \cup {SourcePath(index)}
    /\ dlRet' = SourcePath(index)
    /\ Return
    /\ UNCHANGED <<reqvars, locvars, exc, cmd, procs, rcRet, info, dims, hasAudio, result,
                   upRet, manifest, steps, response>>

\* the download failed (extension, status, size cap, network): the partial
\* file is removed and an HTTPException raised
DownloadFail ==
    /\ Running("download_video_from_url:stream")
    /\ \E s \in {HTTP_400_BAD_REQUEST, 413, HTTP_502_BAD_GATEWAY} :
        exc' = HTTPException(s, "Failed to download video", NoErr)
    /\ files' = cleanup_files(files, {SourcePath(index)})
    /\ Return
    /\ UNCHANGED <<reqvars, retvars, locvars, cmd, procs, manifest, steps, response>>

UploadOk ==
    /\ Running("upload_file_path:to_thread")
    /\ upRet' = [key |-> "key", url |-> "url"]
    /\ Return
    /\ UNCHANGED <<reqvars, locvars, exc, cmd, procs, rcRet, info, dims, hasAudio, result,
                   dlRet, files, manifest, steps, response>>

\* missing configuration or a storage client error: an HTTPException
UploadFail ==
    /\ Running("upload_file_path:to_thread")
    /\ \E s \in {HTTP_500_INTERNAL_SERVER_ERROR, HTTP_502_BAD_GATEWAY} :
        exc' = HTTPException(s, "Failed to upload to R2", NoErr)
    /\ Return
    /\ UNCHANGED <<reqvars, retvars, locvars, cmd, procs, files, manifest, steps, response>>

----------------------------------------------------------------------------
(* routers/videos.py concat_videos *)

Range(q) == {q[i] : i \in 1..Len(q)}
Step(name, i) == [step |-> name, n |-> i]

ConcatVideosFrames == {"concat_videos:start", "concat_videos:download_video_from_url",
                       "concat_videos:get_media_dimensions", "concat_videos:trim_video_segment",
                       "concat_videos:concat_segments", "concat_videos:upload_file_path"}

\* a finally clause that removes the downloads and forgets the segments
ConcatVideosScratch_SourcesOnly(dl, seg) == Range(dl)

\* the files the finally clause of concat_videos removes
ConcatVideosScratch(dl, seg) == Range(dl) \cup Range(seg)

\* the request ends: the finally clause runs and the caller gets r
ConcatVideosEnd(r, dl, seg) ==
    /\ files' = cleanup_files(files, ConcatVideosScratch(dl, seg))
    /\ response' = r
    /\ stack' = <<>>
    /\ exc' = NoExc

Raised(e) == [NoResponse EXCEPT !.kind = IF e = CancelledError THEN "cancelled" ELSE "error",
                                !.exc = e]
VideoConcatResponse(r2) == [NoResponse EXCEPT !.kind = "ok", !.success = TRUE,
                                               !.filename = OutputPath, !.r2 = r2]

\* the loop body from its top to the download's await, or, after the last
\* segment, the call of concat_segments
ConcatVideosIterate(i) ==
    IF i <= nseg
      THEN /\ Goto(<<"concat_videos:download_video_from_url", "download_video_from_url:stream">>)
           /\ steps' = Append(steps, Step("download", i))
           /\ UNCHANGED <<files, manifest, cmd, exc>>
      ELSE /\ ConcatSegmentsEnter(segment_paths, "concat_videos:concat_segments")
           /\ steps' = Append(steps, Step("concat", 0))

ConcatVideosStart ==
    /\ Running("concat_videos:start")
    /\ ConcatVideosIterate(index)
    /\ UNCHANGED <<reqvars, retvars, locvars, procs, response>>

\* generate the segment path and call trim_video_segment with the target
ConcatVideosTrim(tgt) ==
    /\ segment_paths' = Append(segment_paths, SegmentPath(index))
    /\ target' = tgt
    /\ cmd' = ProbeCmd(dlRet)
    /\ Goto(<<"concat_videos:trim_video_segment">> \o TrimFrames)

\* a loop that probes every segment for the target
NeedsTarget_Always(t) == TRUE

\* whether concat_videos still has to probe for the target dimensions
NeedsTarget(t) == t = NoDims

ConcatVideosAfterDownload ==
    /\ Running("concat_videos:download_video_from_url")
    /\ downloaded_paths' = Append(downloaded_paths, dlRet)
    /\ IF NeedsTarget(target)
         THEN /\ cmd' = ProbeCmd(dlRet)
              /\ Goto(<<"concat_videos:get_media_dimensions">> \o GetMediaDimensionsFrames)
              /\ steps' = Append(steps, Step("probe", index))
              /\ UNCHANGED <<segment_paths, target>>
         ELSE /\ ConcatVideosTrim(target)
              /\ steps' = Append(steps, Step("trim", index))
    /\ UNCHANGED <<reqvars, retvars, exc, procs, files, manifest, index,
                   normalized_paths, script, response>>

ConcatVideosAfterDimensions ==
    /\ Running("concat_videos:get_media_dimensions")
    /\ ConcatVideosTrim(dims)
    /\ steps' = Append(steps, Step("trim", index))
    /\ UNCHANGED <<reqvars, retvars, exc, procs, files, manifest, index,
                   downloaded_paths, normalized_paths, script, response>>

\* a loop that goes on to the next segment whatever the trim returned
TrimFailed_Never(r) == FALSE

\* `if not result.success` after trim_video_segment
TrimFailed(r) == ~r.success

ConcatVideosAfterTrim ==
    /\ Running("concat_videos:trim_video_segment")
    /\ IF TrimFailed(result)
         THEN /\ ConcatVideosEnd(Raised(HTTPException(HTTP_500_INTERNAL_SERVER_ERROR,
                                   "Failed to trim segment", result.error)),
                                 downloaded_paths, segment_paths)
              /\ UNCHANGED <<index, steps, manifest, cmd>>
         ELSE /\ index' = index + 1
              /\ ConcatVideosIterate(index + 1)
              /\ response' = response
    /\ UNCHANGED <<reqvars, retvars, procs, downloaded_paths, segment_paths, target,
                   normalized_paths, script>>

ConcatVideosAfterConcat ==
    /\ Running("concat_videos:concat_segments")
    /\ IF ~result.success
         THEN /\ ConcatVideosEnd(Raised(HTTPException(HTTP_500_INTERNAL_SERVER_ERROR,
                                   "Failed to concatenate videos", result.error)),
                                 downloaded_paths, segment_paths)
              /\ steps' = steps
         ELSE IF upload
         THEN /\ Goto(<<"concat_videos:upload_file_path", "upload_file_path:to_thread">>)
              /\ steps' = Append(steps, Step("upload", 0))
              /\ UNCHANGED <<files, response, exc>>
         ELSE /\ ConcatVideosEnd(VideoConcatResponse(NoUpload), downloaded_paths, segment_paths)
              /\ steps' = steps
    /\ UNCHANGED <<reqvars, retvars, locvars, cmd, procs, manifest>>

ConcatVideosAfterUpload ==
    /\ Running("concat_videos:upload_file_path")
    /\ ConcatVideosEnd(VideoConcatResponse(upRet), downloaded_paths, segment_paths)
    /\ UNCHANGED <<reqvars, retvars, locvars, cmd, procs, manifest, steps>>

\* an exception reaches concat_videos: the finally clause runs and the
\* exception goes to the caller
ConcatVideosFinally ==
    /\ exc # NoExc
    /\ Len(stack) > 0 /\ Top \in ConcatVideosFrames
    /\ ConcatVideosEnd(Raised(exc), downloaded_paths, segment_paths)
    /\ UNCHANGED <<reqvars, retvars, locvars, cmd, procs, manifest, steps>>

----------------------------------------------------------------------------
(* FFMPEGService.append_intro_outro *)

MainPath == Path("append_main", 0)
IntroPath == Path("append_intro", 0)
OutroPath == Path("append_outro", 0)
NormalizedPath(i) == Path("append", i)

\* inputs = [p for p in [intro_path, video_path, outro_path] if p]
AppendInputs(intro, outro) ==
    (IF intro THEN <<IntroPath>> ELSE <<>>) \o <<MainPath>> \o (IF outro THEN <<OutroPath>> ELSE <<>>)

Returned(r) == [NoResponse EXCEPT !.kind = "returned", !.result = r]

\* the service method ends: its finally clause removes the paths ps
ServiceEnd(r, ps) ==
    /\ files' = cleanup_files(files, ps)
    /\ response' = r
    /\ stack' = <<>>
    /\ exc' = NoExc

\* a target taken from the first input instead of the main video
AppendTargetSource_First == inputs[1]

\* the file whose dimensions become the target of append_intro_outro
AppendTargetSource == MainPath

AppendIntroOutroStart ==
    /\ Running("append_intro_outro:start")
    /\ IF Len(inputs) = 1
         THEN /\ ServiceEnd(Returned(FFMPEGResult(FALSE, NoPath,
                     [kind |-> "No intro or outro provided", n |-> 0])), {})
              /\ UNCHANGED <<cmd, steps>>
         ELSE /\ cmd' = ProbeCmd(AppendTargetSource)
              /\ Goto(<<"append_intro_outro:get_media_dimensions">> \o GetMediaDimensionsFrames)
              /\ steps' = Append(steps, Step("probe", 0))
              /\ UNCHANGED <<files, response, exc>>
    /\ UNCHANGED <<reqvars, retvars, locvars, procs, manifest>>

\* which input the i-th normalize call is given
NormalizeInput(i) == inputs[i]

\* the loop body up to the normalize call's await, or, after the last
\* input, the call of concat_segments
AppendIterate(i, np) ==
    IF i <= Len(inputs)
      THEN /\ normalized_paths' = Append(np, NormalizedPath(i))
           /\ cmd' = ProbeCmd(NormalizeInput(i))
           /\ Goto(<<"append_intro_outro:_normalize_video_clip">> \o NormalizeFrames)
           /\ steps' = Append(steps, Step("normalize", i))
           /\ UNCHANGED <<files, manifest, exc>>
      ELSE /\ ConcatSegmentsEnter(np, "append_intro_outro:concat_segments")
           /\ steps' = Append(steps, Step("concat", 0))
           /\ normalized_paths' = np

AppendAfterDimensions ==
    /\ Running("append_intro_outro:get_media_dimensions")
    /\ target' = dims
    /\ AppendIterate(index, normalized_paths)
    /\ UNCHANGED <<reqvars, retvars, procs, index, downloaded_paths, segment_paths,
                   script, response>>

AppendAfterNormalize ==
    /\ Running("append_intro_outro:_normalize_video_clip")
    /\ IF ~result.success
         THEN /\ ServiceEnd(Returned(FFMPEGResult(FALSE, NoPath, result.error)),
                            Range(normalized_paths))
              /\ UNCHANGED <<index, normalized_paths, cmd, manifest, steps>>
         ELSE /\ index' = index + 1
              /\ AppendIterate(index + 1, normalized_paths)
              /\ response' = response
    /\ UNCHANGED <<reqvars, retvars, procs, downloaded_paths, segment_paths, target, script>>

AppendAfterConcat ==
    /\ Running("append_intro_outro:concat_segments")
    /\ ServiceEnd(Returned(IF result.success THEN result
                           ELSE FFMPEGResult(FALSE, NoPath, result.error)),
                  Range(normalized_paths))
    /\ UNCHANGED <<reqvars, retvars, locvars, cmd, procs, manifest, steps>>

\* an exception leaves append_intro_outro: inside the try its finally
\* removes the normalized clips, the dimension probe is before the try
AppendFinally ==
    /\ exc # NoExc
    /\ Len(stack) > 0
    /\ Top \in {"append_intro_outro:get_media_dimensions",
                "append_intro_outro:_normalize_video_clip",
                "append_intro_outro:concat_segments"}
    /\ ServiceEnd(Raised(exc),
                  IF Top = "append_intro_outro:get_media_dimensions" THEN {}
                  ELSE Range(normalized_paths))
    /\ UNCHANGED <<reqvars, retvars, locvars, cmd, procs, manifest, steps>>

----------------------------------------------------------------------------
(* FFMPEGService._wrap_caption_text: text is a sequence of characters *)

IsSpace(c) == c = " "
AllSpace(chunk) == \A i \in 1..Len(chunk) : IsSpace(chunk[i])

RECURSIVE Flatten(_, _)
\* sep.join(parts)
Flatten(parts, sep) ==
    IF parts = <<>> THEN <<>>
    ELSE IF Len(parts) = 1 THEN parts[1]
    ELSE parts[1] \o sep \o Flatten(Tail(parts), sep)

RECURSIVE SplitChunks(_, _)
\* the maximal runs of whitespace and of non-whitespace of a text, in
\* order; cur is the run being read
SplitChunks(text, cur) ==
    IF text = <<>> THEN (IF cur = <<>> THEN <<>> ELSE <<cur>>)
    ELSE IF cur = <<>> \/ IsSpace(cur[1]) = IsSpace(text[1])
      THEN SplitChunks(Tail(text), Append(cur, text[1]))
      ELSE <<cur>> \o SplitChunks(Tail(text), <<text[1]>>)

\* text.split(): the non-whitespace runs
Words(text) == SelectSeq(SplitChunks(text, <<>>), LAMBDA c : ~AllSpace(c))

\* " ".join(text.split())
Cleaned(text) == Flatten(Words(text), <<" ">>)

SumLen(line) == Len(Flatten(line, <<>>))

RECURSIVE TakeFitting(_, _, _)
\* the inner loop of TextWrapper._wrap_chunks: move chunks onto the
\* current line while they fit in width
TakeFitting(chunks, line, width) ==
    IF chunks # <<>> /\ SumLen(line) + Len(chunks[1]) <= width
      THEN TakeFitting(Tail(chunks), Append(line, chunks[1]), width)
      ELSE [line |-> line, rest |-> chunks]

\* TextWrapper._handle_long_word with break_long_words: the part of the
\* next chunk that fits goes on the line, the remainder stays
HandleLongWord(t, width) ==
    IF t.rest # <<>> /\ Len(t.rest[1]) > width
      THEN LET space_left == width - SumLen(t.line)
               chunk == t.rest[1]
           IN [line |-> Append(t.line, SubSeq(chunk, 1, space_left)),
               rest |-> <<SubSeq(chunk, space_left + 1, Len(chunk))>> \o Tail(t.rest)]
      ELSE t

\* drop the last chunk of the line when it is all whitespace (or empty)
DropTrailingSpace(line) ==
    IF line # <<>> /\ AllSpace(line[Len(line)]) THEN SubSeq(line, 1, Len(line) - 1) ELSE line

Placeholder == <<".", ".", ".">>

RECURSIVE Truncate(_, _)
\* the max_lines branch: chunks are dropped from the end of the line until
\* a word followed by the placeholder fits; else the placeholder alone
Truncate(line, width) ==
    IF line = <<>> THEN Placeholder
    ELSE IF ~AllSpace(line[Len(line)]) /\ SumLen(line) + Len(Placeholder) <= width
      THEN Flatten(line, <<>>) \o Placeholder
      ELSE Truncate(SubSeq(line, 1, Len(line) - 1), width)

RECURSIVE WrapChunks(_, _, _, _)
\* TextWrapper._wrap_chunks: the lines of width at most `width`;
\* max_lines = 0 stands for None
WrapChunks(chunks, lines, width, max_lines) ==
    IF chunks = <<>> THEN lines
    ELSE
      LET c0 == IF AllSpace(chunks[1]) /\ lines # <<>> THEN Tail(chunks) ELSE chunks
          t == HandleLongWord(TakeFitting(c0, <<>>, width), width)
          cur == DropTrailingSpace(t.line)
      IN IF cur = <<>> THEN WrapChunks(t.rest, lines, width, max_lines)
         ELSE IF \/ max_lines = 0
                 \/ Len(lines) + 1 < max_lines
                 \/ /\ \/ t.rest = <<>>
                       \/ Len(t.rest) = 1 /\ AllSpace(t.rest[1])
                    /\ SumLen(cur) <= width
           THEN WrapChunks(t.rest, Append(lines, Flatten(cur, <<>>)), width, max_lines)
           ELSE Append(lines, Truncate(cur, width))

\* textwrap.wrap(cleaned, width, break_long_words=True, break_on_hyphens=False)
Wrap(text, width) == WrapChunks(SplitChunks(text, <<>>), <<>>, width, 0)

\* whether textwrap.shorten raises "placeholder too large for max width"
ShortenRaises(width) == Len(Placeholder) > width

\* textwrap.shorten(text, width, placeholder="..."): one line, "" for no line
Shorten(text, width) ==
    LET ls == WrapChunks(SplitChunks(Cleaned(text), <<>>), <<>>, width, 1)
    IN IF ls = <<>> THEN <<>> ELSE ls[1]

NoLines == [raised |-> FALSE, lines |-> <<>>]

\* _wrap_caption_text: the returned lines ("\n".join of them is the
\* string returned), or the ValueError textwrap.shorten raised
_wrap_caption_text(text, max_chars) ==
    LET cleaned == Cleaned(text)
        lines == Wrap(cleaned, max_chars)
    IN IF cleaned = <<>> THEN NoLines
       ELSE IF Len(lines) <= 2 THEN [raised |-> FALSE, lines |-> lines]
       ELSE IF ShortenRaises(max_chars) THEN [raised |-> TRUE, lines |-> <<>>]
       ELSE [raised |-> FALSE,
             lines |-> <<lines[1], Shorten(Flatten(Tail(lines), <<" ">>), max_chars)>>]

----------------------------------------------------------------------------
(* FFMPEGService.add_captions_to_video *)

DEFAULT_CAPTION_MIN_FONT_SIZE == 8
DEFAULT_CAPTION_MAX_FONT_SIZE == 32
DEFAULT_CAPTION_MIN_BORDER == 2
DEFAULT_CAPTION_MAX_BORDER == 10

Max(a, b) == IF a >= b THEN a ELSE b
Min(a, b) == IF a <= b THEN a ELSE b

\* round(n / d) for n >= 0, d > 0, ties to the even neighbour
Round(n, d) ==
    LET q == n \div d
        r == n % d
    IN IF 2 * r > d \/ (2 * r = d /\ q % 2 = 1) THEN q + 1 ELSE q

\* font_size = 0 stands for None; DEFAULT_CAPTION_FONT_RATIO is 0.016
_resolve_font_size_from_height(height, fs) ==
    IF fs # 0 THEN fs
    ELSE Max(DEFAULT_CAPTION_MIN_FONT_SIZE,
             Min(Round(height * 16, 1000), DEFAULT_CAPTION_MAX_FONT_SIZE))

\* DEFAULT_CAPTION_BORDER_RATIO is 0.12
_resolve_border_width(fs) ==
    Max(DEFAULT_CAPTION_MIN_BORDER, Min(Round(fs * 12, 100), DEFAULT_CAPTION_MAX_BORDER))

_resolve_box_padding(fs) == Max(10, Min(Round(fs * 7, 10), 20))

\* the style add_captions_to_video resolves for a video of this height
\* and this font_size argument
ResolvedStyle(height, fs) ==
    LET resolved_font_size == _resolve_font_size_from_height(height, fs)
    IN [font_size |-> resolved_font_size,
        border_width |-> _resolve_border_width(resolved_font_size),
        box_padding |-> _resolve_box_padding(resolved_font_size)]

\* max_text_width = int(round(width * 0.72));
\* max_chars = max(1, int(max_text_width / (resolved_font_size * 0.6)))
MaxCharsOf(width, height, fs) ==
    Max(1, (Round(width * 72, 100) * 10) \div (6 * _resolve_font_size_from_height(height, fs)))

\* _format_ass_time of a time given in milliseconds: H:MM:SS.CC
_format_ass_time(ms) ==
    LET total_cs == Round(Max(0, ms), 10)
        total_seconds == total_cs \div 100
        total_minutes == total_seconds \div 60
    IN [h |-> total_minutes \div 60, m |-> total_minutes % 60,
        s |-> total_seconds % 60, cs |-> total_cs % 100]

\* int(round(max(0.0, seconds) * 100)) of a time given in milliseconds.
\* Exactly between two centiseconds the binary product seconds * 100 may
\* fall on either side (1.005 * 100 < 100.5, 0.035 * 100 > 3.5), so
\* either neighbour is a possible outcome there
TotalCs_Truncated(ms) == {Max(0, ms) \div 10}

TotalCs(ms) ==
    LET m == Max(0, ms)
    IN IF m % 10 = 5 THEN {m \div 10, m \div 10 + 1} ELSE {Round(m, 10)}

\* the fields _format_ass_time computes from total_cs
AssTimeFields(total_cs) ==
    LET total_seconds == total_cs \div 100
        total_minutes == total_seconds \div 60
    IN [h |-> total_minutes \div 60, m |-> total_minutes % 60,
        s |-> total_seconds % 60, cs |-> total_cs % 100]

DigitChars == <<"0", "1", "2", "3", "4", "5", "6", "7", "8", "9">>

IsDigit(c) == \E i \in 1..10 : DigitChars[i] = c
DigitOf(c) == (CHOOSE i \in 1..10 : DigitChars[i] = c) - 1

RECURSIVE NumberOf(_)
\* the number a sequence of digits writes
NumberOf(ds) ==
    IF ds = <<>> THEN 0 ELSE 10 * NumberOf(SubSeq(ds, 1, Len(ds) - 1)) + DigitOf(ds[Len(ds)])

RECURSIVE Decimal(_)
\* "{n}" of a natural number
Decimal(n) ==
    IF n < 10 THEN <<DigitChars[n + 1]>>
    ELSE Decimal(n \div 10) \o <<DigitChars[(n % 10) + 1]>>

\* "{n:02d}": at least two digits
Decimal02(n) == IF n < 10 THEN <<"0">> \o Decimal(n) ELSE Decimal(n)

\* f"{hours}:{mins:02d}:{secs:02d}.{cs:02d}"
AssTimeString(t) ==
    Decimal(t.h) \o <<":">> \o Decimal02(t.m) \o <<":">> \o Decimal02(t.s)
        \o <<".">> \o Decimal02(t.cs)

RECURSIVE _ass_escape_text(_)
\* backslash and braces escaped, \r dropped, \n turned into \N
_ass_escape_text(value) ==
    IF value = <<>> THEN <<>>
    ELSE LET c == value[1]
             e == IF c = "\\" THEN <<"\\", "\\">>
                  ELSE IF c = "{" THEN <<"\\", "{">>
                  ELSE IF c = "}" THEN <<"\\", "}">>
                  ELSE IF c = "\r" THEN <<>>
                  ELSE IF c = "\n" THEN <<"\\", "N">>
                  ELSE <<c>>
         IN e \o _ass_escape_text(Tail(value))

Dialogue(caption, lines) ==
    [start |-> _format_ass_time(caption.start), end |-> _format_ass_time(caption.end),
     text |-> _ass_escape_text(Flatten(lines, <<"\n">>))]

\* whether the loop skips a caption: no text left after wrapping, or
\* end <= start
SkipsCaption(caption, lines) == lines = <<>> \/ caption.end <= caption.start

RECURSIVE RenderEvents(_, _, _)
\* the caption loop: the Dialogue events appended so far are `events`;
\* a ValueError raised while wrapping a caption ends the loop
RenderEvents(caps, max_chars, events) ==
    IF caps = <<>> THEN [raised |-> FALSE, events |-> events]
    ELSE LET w == _wrap_caption_text(caps[1].text, max_chars)
         IN IF w.raised THEN [raised |-> TRUE, events |-> events]
            ELSE IF SkipsCaption(caps[1], w.lines)
              THEN RenderEvents(Tail(caps), max_chars, events)
              ELSE RenderEvents(Tail(caps), max_chars, Append(events, Dialogue(caps[1], w.lines)))

CaptionVideoPath == Path("captions_video", 0)
SubtitlePath == Path("captions_ass", 0)
CaptionsCmd == Cmd("captions", CaptionVideoPath, OutputPath, 0, 0, FALSE)
NoScript == [written |-> FALSE, events |-> <<>>]

\* str(e) of the exception the except clause caught
StrOf(e) == [kind |-> "str(e)", n |-> e.status]

\* a method that never removes its subtitle script
CaptionsScratch_None == {}

\* the files the finally clause of add_captions_to_video removes
CaptionsScratch == {SubtitlePath}

AddCaptionsStart ==
    /\ Running("add_captions_to_video:start")
    /\ cmd' = ProbeCmd(CaptionVideoPath)
    /\ Goto(<<"add_captions_to_video:get_media_dimensions">> \o GetMediaDimensionsFrames)
    /\ steps' = Append(steps, Step("probe", 0))
    /\ UNCHANGED <<reqvars, retvars, locvars, exc, procs, files, manifest, response>>

\* from the dimensions to the run of the burn-in command: lay out, build
\* the events, write the script; a ValueError from wrapping or an OSError
\* from writing is caught by `except Exception`
AddCaptionsAfterDimensions ==
    /\ Running("add_captions_to_video:get_media_dimensions")
    /\ LET r == RenderEvents(captions, MaxCharsOf(dims[1], dims[2], font_size), <<>>)
       IN \E written \in BOOLEAN :
            IF ~r.raised /\ written
              THEN /\ script' = [written |-> TRUE, events |-> r.events]
                   /\ files' = files \cup {SubtitlePath}
                   /\ cmd' = CaptionsCmd
                   /\ Goto(<<"add_captions_to_video:run_command">> \o RunCommandFrames)
                   /\ steps' = Append(steps, Step("burn", 0))
                   /\ UNCHANGED <<response, exc>>
              ELSE /\ ServiceEnd(Returned(FFMPEGResult(FALSE, NoPath,
                                     IF r.raised THEN ValueErrorText ELSE ExceptionText)),
                                 CaptionsScratch)
                   /\ UNCHANGED <<script, cmd, steps>>
    /\ UNCHANGED <<reqvars, retvars, procs, manifest, index, downloaded_paths,
                   segment_paths, target, normalized_paths>>

AddCaptionsAfterRun ==
    /\ Running("add_captions_to_video:run_command")
    /\ ServiceEnd(Returned(CommandResult(rcRet, OutputPath, files)), CaptionsScratch)
    /\ UNCHANGED <<reqvars, retvars, locvars, cmd, procs, manifest, steps>>

\* an exception reaches add_captions_to_video: `except Exception` turns it
\* into a failed result, CancelledError goes on; the finally runs
AddCaptionsExcept ==
    /\ exc # NoExc
    /\ Len(stack) > 0
    /\ Top \in {"add_captions_to_video:get_media_dimensions",
                "add_captions_to_video:run_command"}
    /\ ServiceEnd(IF exc = CancelledError THEN Raised(exc)
                  ELSE Returned(FFMPEGResult(FALSE, NoPath, StrOf(exc))),
                  CaptionsScratch)
    /\ UNCHANGED <<reqvars, retvars, locvars, cmd, procs, manifest, steps>>

----------------------------------------------------------------------------
(* FFMPEGService._parse_aspect_ratio, _even, convert_aspect_ratio,
   smart_crop_video, _resolve_font_size, add_text_to_image,
   get_video_duration, extract_last_frame *)

InputPath == Path("upload_input", 0)

\* a parser that accepts every string
RatioKnown_Any(value) == TRUE

\* `value in ratios`
RatioKnown(value) == value \in {"9:16", "1:1", "16:9"}

\* ratios[value] as <<numerator, denominator>>
RatioOf(value) ==
    IF value = "9:16" THEN <<9, 16>> ELSE IF value = "16:9" THEN <<16, 9>> ELSE <<1, 1>>

\* a helper that only raises small values to 2
_even_AtLeastTwo(value) == Max(2, value)

_even(value) == LET v == Max(2, value) IN IF v % 2 = 0 THEN v ELSE v - 1

\* convert_aspect_ratio: (target_width, target_height) before _even
AspectTarget(width, height, r) ==
    IF r[1] >= r[2] THEN <<width, Round(width * r[2], r[1])>>
    ELSE <<Round(height * r[1], r[2]), height>>

\* smart_crop_video: (crop_width, crop_height, x_offset, y_offset) before
\* _even and max(0, offset)
CropTarget(width, height, r) ==
    IF width * r[2] >= height * r[1]
    THEN LET crop_width == Round(height * r[1], r[2])
         IN <<crop_width, height, Round(width - crop_width, 2), 0>>
    ELSE LET crop_height == Round(width * r[2], r[1])
         IN <<width, crop_height, 0, Round(height - crop_height, 2)>>

PadFilter(w, h, color) == [NoFilter EXCEPT !.kind = "pad", !.w = w, !.h = h, !.color = color]
CropFilter(w, h, x, y) == [NoFilter EXCEPT !.kind = "crop", !.w = w, !.h = h, !.x = x, !.y = y]
DrawtextFilter(fontsize) == [NoFilter EXCEPT !.kind = "drawtext", !.fontsize = fontsize]

\* convert_aspect_ratio after get_media_dimensions returned
ConvertAspectRatioRun ==
    /\ Running("convert_aspect_ratio:get_media_dimensions")
    /\ LET t == AspectTarget(dims[1], dims[2], RatioOf(ratio))
           target_width == _even(t[1])
           target_height == _even(t[2])
       IN /\ vf' = PadFilter(target_width, target_height, background_color)
          /\ cmd' = Cmd("aspect", InputPath, OutputPath, target_width, target_height, FALSE)
    /\ Goto(<<"convert_aspect_ratio:run_command">> \o RunCommandFrames)
    /\ UNCHANGED <<argvars, retvars, locvars, exc, procs, files, manifest, steps, response>>

\* smart_crop_video after get_media_dimensions returned
SmartCropVideoRun ==
    /\ Running("smart_crop_video:get_media_dimensions")
    /\ LET t == CropTarget(dims[1], dims[2], RatioOf(ratio))
           crop_width == _even(t[1])
           crop_height == _even(t[2])
       IN /\ vf' = CropFilter(crop_width, crop_height, Max(0, t[3]), Max(0, t[4]))
          /\ cmd' = Cmd("crop", InputPath, OutputPath, crop_width, crop_height, FALSE)
    /\ Goto(<<"smart_crop_video:run_command">> \o RunCommandFrames)
    /\ UNCHANGED <<argvars, retvars, locvars, exc, procs, files, manifest, steps, response>>

\* add_text_to_image from the resolved font size to the run of its command
AddTextToImageRun(resolved_font_size) ==
    /\ vf' = DrawtextFilter(resolved_font_size)
    /\ cmd' = Cmd("drawtext", InputPath, OutputPath, 0, 0, FALSE)

\* _resolve_font_size after get_media_dimensions returned the height
ResolveFontSizeReturn ==
    /\ Running("_resolve_font_size:get_media_dimensions")
    /\ AddTextToImageRun(_resolve_font_size_from_height(dims[2], 0))
    /\ stack' = SubSeq(stack, 1, Len(stack) - 2)
                    \o <<"add_text_to_image:run_command">> \o RunCommandFrames
    /\ UNCHANGED <<argvars, retvars, locvars, exc, procs, files, manifest, steps, response>>

\* _resolve_font_size: `except HTTPException: return 24`; any other
\* exception goes on to the caller
ResolveFontSizeExcept ==
    /\ At("_resolve_font_size:get_media_dimensions")
    /\ exc # NoExc
    /\ IF exc.type = "HTTPException"
         THEN /\ AddTextToImageRun(24)
              /\ exc' = NoExc
              /\ stack' = SubSeq(stack, 1, Len(stack) - 2)
                              \o <<"add_text_to_image:run_command">> \o RunCommandFrames
         ELSE /\ Return
              /\ UNCHANGED <<exc, cmd, vf>>
    /\ UNCHANGED <<argvars, retvars, locvars, procs, files, manifest, steps, response>>

\* get_video_duration after get_video_info returned: the description
\* carries a duration, in its format or in its video stream, or none
GetVideoDurationReturn ==
    /\ Running("get_video_duration:get_video_info")
    /\ \E has_duration \in BOOLEAN :
          exc' = IF has_duration THEN exc
                 ELSE HTTPException(HTTP_400_BAD_REQUEST, "Could not determine video duration", NoErr)
    /\ Return
    /\ UNCHANGED <<reqvars, retvars, locvars, cmd, procs, files, manifest, steps, response>>

\* extract_last_frame after get_video_duration returned
ExtractLastFrameRun ==
    /\ Running("extract_last_frame:get_video_duration")
    /\ cmd' = Cmd("last_frame", InputPath, OutputPath, 0, 0, FALSE)
    /\ Goto(<<"extract_last_frame:run_command">> \o RunCommandFrames)
    /\ UNCHANGED <<reqvars, retvars, locvars, exc, procs, files, manifest, steps, response>>

TransformRunFrames == {"convert_aspect_ratio:run_command", "smart_crop_video:run_command",
                       "add_text_to_image:run_command", "extract_last_frame:run_command"}

\* the end of each of these methods, after run_command returned
TransformReturn ==
    /\ Len(stack) > 0
    /\ exc = NoExc
    /\ Top \in TransformRunFrames
    /\ result' = CommandResult(rcRet, OutputPath, files)
    /\ Return
    /\ UNCHANGED <<reqvars, locvars, exc, cmd, procs, rcRet, info, dims, hasAudio,
                   dlRet, upRet, files, manifest, steps, response>>

----------------------------------------------------------------------------
(* the endpoints on one uploaded file: routers/videos.py
   convert_aspect_ratio and crop_vertical_video, routers/captions.py
   add_image_caption, routers/frames.py extract_last_frame *)

TransformOps == {"convert_aspect_ratio", "crop_vertical_video", "add_image_caption",
                 "extract_last_frame"}

\* the endpoints whose handler calls r2_service.upload_file_path
CallsUpload(o) == o \in {"convert_aspect_ratio", "crop_vertical_video", "add_image_caption"}

FailureDetail(o) ==
    IF o = "convert_aspect_ratio" THEN "Failed to convert aspect ratio"
    ELSE IF o = "crop_vertical_video" THEN "Failed to crop video"
    ELSE IF o = "add_image_caption" THEN "Failed to add caption"
    ELSE "Failed to extract last frame"

\* the handler ends: its finally clause removes the saved upload
EndpointEnd(r) ==
    /\ files' = cleanup_files(files, {InputPath})
    /\ response' = r
    /\ stack' = <<>>
    /\ exc' = NoExc

\* save_upload_file raised (no filename, extension not allowed, too
\* large, write error): nothing is left on disk
SaveUploadFail ==
    /\ Running("endpoint:save_upload_file")
    /\ \E s \in {HTTP_400_BAD_REQUEST, HTTP_500_INTERNAL_SERVER_ERROR} :
          response' = Raised(HTTPException(s, "save_upload_file", NoErr))
    /\ stack' = <<>>
    /\ UNCHANGED <<reqvars, retvars, locvars, exc, cmd, procs, files, manifest, steps>>

\* the service method from its call to its first await, or to the
\* exception it raises before any await
CallService ==
    IF op \in {"convert_aspect_ratio", "crop_vertical_video"}
    THEN IF ~RatioKnown(ratio)
         THEN /\ exc' = HTTPException(HTTP_400_BAD_REQUEST,
                                      "Aspect ratio must be one of: 9:16, 1:1, 16:9", NoErr)
              /\ stack' = <<"endpoint:service">>
              /\ steps' = Append(steps, Step("save", 0))
              /\ UNCHANGED <<cmd, vf>>
         ELSE /\ cmd' = ProbeCmd(InputPath)
              /\ stack' = <<"endpoint:service",
                            IF op = "convert_aspect_ratio"
                            THEN "convert_aspect_ratio:get_media_dimensions"
                            ELSE "smart_crop_video:get_media_dimensions">>
                              \o GetMediaDimensionsFrames
              /\ steps' = steps \o <<Step("save", 0), Step("probe", 0)>>
              /\ UNCHANGED <<exc, vf>>
    ELSE IF op = "add_image_caption"
    THEN IF font_size # 0
         THEN /\ AddTextToImageRun(font_size)
              /\ stack' = <<"endpoint:service", "add_text_to_image:run_command">>
                              \o RunCommandFrames
              /\ steps' = Append(steps, Step("save", 0))
              /\ UNCHANGED exc
         ELSE /\ cmd' = ProbeCmd(InputPath)
              /\ stack' = <<"endpoint:service", "add_text_to_image:_resolve_font_size",
                            "_resolve_font_size:get_media_dimensions">>
                              \o GetMediaDimensionsFrames
              /\ steps' = steps \o <<Step("save", 0), Step("probe", 0)>>
              /\ UNCHANGED <<exc, vf>>
    ELSE /\ cmd' = ProbeCmd(InputPath)
         /\ stack' = <<"endpoint:service", "extract_last_frame:get_video_duration",
                       "get_video_duration:get_video_info">> \o GetVideoInfoFrames
         /\ steps' = steps \o <<Step("save", 0), Step("probe", 0)>>
         /\ UNCHANGED <<exc, vf>>

\* save_upload_file returned the saved path: the handler calls the
\* service method
SaveUploadOk ==
    /\ Running("endpoint:save_upload_file")
    /\ files' = files \cup {InputPath}
    /\ CallService
    /\ UNCHANGED <<argvars, retvars, locvars, procs, manifest, response>>

\* the handler after the service method returned its result
EndpointAfterService ==
    /\ Running("endpoint:service")
    /\ IF ~result.success
         THEN /\ EndpointEnd(Raised(HTTPException(HTTP_500_INTERNAL_SERVER_ERROR,
                                                  FailureDetail(op), result.error)))
              /\ steps' = steps
         ELSE IF upload /\ CallsUpload(op)
         THEN /\ Goto(<<"endpoint:upload_file_path", "upload_file_path:to_thread">>)
              /\ steps' = Append(steps, Step("upload", 0))
              /\ UNCHANGED <<files, response, exc>>
         ELSE /\ EndpointEnd(VideoConcatResponse(NoUpload))
              /\ steps' = steps
    /\ UNCHANGED <<reqvars, retvars, locvars, cmd, procs, manifest>>

EndpointAfterUpload ==
    /\ Running("endpoint:upload_file_path")
    /\ EndpointEnd(VideoConcatResponse(upRet))
    /\ UNCHANGED <<reqvars, retvars, locvars, cmd, procs, manifest, steps>>

\* an exception reaches the handler: the finally clause runs and the
\* exception goes to the caller
EndpointFinally ==
    /\ Len(stack) > 0
    /\ exc # NoExc
    /\ Top \in {"endpoint:service", "endpoint:upload_file_path"}
    /\ EndpointEnd(Raised(exc))
    /\ UNCHANGED <<reqvars, retvars, locvars, cmd, procs, manifest, steps>>

----------------------------------------------------------------------------
(* _wrap_caption_text applied to one text *)

ApplyWrap ==
    /\ op = "_wrap_caption_text"
    /\ ~wout.done
    /\ LET r == _wrap_caption_text(wtext, wmax)
       IN wout' = [done |-> TRUE, raised |-> r.raised, lines |-> r.lines]
    /\ UNCHANGED <<svars, wtext, wmax, fvars, tvars, evars>>

----------------------------------------------------------------------------
(* a process left running by a cancelled request ends on its own *)

OrphanExit ==
    /\ stack = <<>>
    /\ \E k \in 1..Len(procs), wrote \in BOOLEAN :
        /\ procs[k].status = "running"
        /\ (procs[k].cmd.out = NoPath) => wrote = FALSE
        /\ procs' = [procs EXCEPT ![k] = [@ EXCEPT !.status = "exited"]]
        /\ files' = files \cup WrittenBy(procs[k].cmd, wrote)
    /\ UNCHANGED <<reqvars, retvars, locvars, stack, exc, cmd, manifest, steps, response>>

----------------------------------------------------------------------------
(* middleware/rate_limiter.py and utils/auth.py: the requests in flight
   pass RateLimiterMiddleware.dispatch, then the endpoint's
   Depends(verify_api_key), then the handler *)

\* settings.RATE_LIMIT_REQUESTS, RATE_LIMIT_UPLOAD_REQUESTS and
\* RATE_LIMIT_WINDOW as configured for the runs
RATE_LIMIT_REQUESTS == 3
RATE_LIMIT_UPLOAD_REQUESTS == 1
RATE_LIMIT_WINDOW == 2

MaxRequests == 3
MaxClock == 2
MaxInFlight == 2

HTTP_401_UNAUTHORIZED == 401
HTTP_403_FORBIDDEN == 403
TooManyRequests == 429

\* a URL path is the sequence of its segments: "/" is <<>>
ApiPath(rest) == <<"api", "v1">> \o rest

\* path.startswith(prefix) for a prefix that ends with "/"
StartsWith(path, prefix) ==
    Len(path) > Len(prefix) /\ SubSeq(path, 1, Len(prefix)) = prefix

EXEMPT_PATHS == {<<>>, <<"health">>, <<"health", "ready">>, <<"docs">>, <<"redoc">>,
                 <<"openapi.json">>}

UPLOAD_PATHS ==
    { ApiPath(<<"captions", "video">>), ApiPath(<<"captions", "image">>),
      ApiPath(<<"frames", "extract">>), ApiPath(<<"frames", "last">>),
      ApiPath(<<"storage", "r2", "upload">>), ApiPath(<<"videos", "audio">>),
      ApiPath(<<"videos", "aspect">>), ApiPath(<<"videos", "crop", "vertical">>) }

UPLOAD_PATH_PREFIXES == {ApiPath(<<"storage", "r2", "upload", "output">>)}

Endpoint(p, m, a, f, r) == [path |-> p, method |-> m, auth |-> a, file |-> f, runs |-> r]

\* the routes of the application: path, method, whether the handler
\* declares Depends(verify_api_key), whether it takes an UploadFile,
\* whether it runs an external process
Endpoints ==
    { Endpoint(<<"health">>, "GET", FALSE, FALSE, FALSE),
      Endpoint(ApiPath(<<"captions", "video">>), "POST", TRUE, TRUE, TRUE),
      Endpoint(ApiPath(<<"captions", "image">>), "POST", TRUE, TRUE, TRUE),
      Endpoint(ApiPath(<<"captions", "download", "out.mp4">>), "GET", TRUE, FALSE, FALSE),
      Endpoint(ApiPath(<<"frames", "extract">>), "POST", TRUE, TRUE, TRUE),
      Endpoint(ApiPath(<<"frames", "last">>), "POST", TRUE, TRUE, TRUE),
      Endpoint(ApiPath(<<"frames", "download", "out.zip">>), "GET", TRUE, FALSE, FALSE),
      Endpoint(ApiPath(<<"storage", "r2", "upload">>), "POST", TRUE, TRUE, FALSE),
      Endpoint(ApiPath(<<"storage", "r2", "upload", "output", "out.mp4">>), "POST",
               TRUE, FALSE, FALSE),
      Endpoint(ApiPath(<<"videos", "concat">>), "POST", TRUE, FALSE, TRUE),
      Endpoint(ApiPath(<<"videos", "audio">>), "POST", TRUE, TRUE, TRUE),
      Endpoint(ApiPath(<<"videos", "aspect">>), "POST", TRUE, TRUE, TRUE),
      Endpoint(ApiPath(<<"videos", "crop", "vertical">>), "POST", TRUE, TRUE, TRUE),
      Endpoint(ApiPath(<<"videos", "watermark">>), "POST", TRUE, TRUE, TRUE),
      Endpoint(ApiPath(<<"videos", "append">>), "POST", TRUE, TRUE, TRUE),
      Endpoint(ApiPath(<<"videos", "audio", "extract">>), "POST", TRUE, TRUE, TRUE) }

EndpointOf(path) == CHOOSE e \in Endpoints : e.path = path

\* the X-API-Key header of a request: absent, a configured key, another key
Absent == "<no X-API-Key header>"
api_keys_list == {"k1"}
HeaderValues == {Absent, "k1", "bad"}

\* request.headers.get("X-API-Key", "anonymous")
RateApiKey(header) == IF header = Absent THEN "anonymous" ELSE header

RateKey(kind, api_key) == [kind |-> kind, api_key |-> api_key]
RateKeys == {RateKey(k, RateApiKey(h)) : k \in {"upload", "general"}, h \in HeaderValues}

\* is_upload and request.method == "POST"
IsUpload(path, method) ==
    /\ path \in UPLOAD_PATHS \/ \E prefix \in UPLOAD_PATH_PREFIXES : StartsWith(path, prefix)
    /\ method = "POST"

\* (rate_key, max_requests) dispatch passes to is_allowed
RateKeyOf(r) ==
    RateKey(IF IsUpload(r.path, r.method) THEN "upload" ELSE "general", RateApiKey(r.header))
MaxRequestsOf(r) ==
    IF IsUpload(r.path, r.method) THEN RATE_LIMIT_UPLOAD_REQUESTS ELSE RATE_LIMIT_REQUESTS

Slots == 1..MaxInFlight

\* the connections in use, and the routes and headers of the requests:
\* requests of one client on every connection for the limiter alone,
\* one request at a time to any route with any header otherwise
Connections == IF op = "is_allowed" THEN Slots ELSE {1}
Routes ==
    IF op = "is_allowed"
      THEN {e \in Endpoints : e.path \in {ApiPath(<<"captions", "image">>),
                                          ApiPath(<<"videos", "concat">>)}}
      ELSE Endpoints
Headers == IF op = "is_allowed" THEN {"k1"} ELSE HeaderValues

NoRequest == [pc |-> "idle", path |-> <<>>, method |-> "", header |-> Absent,
              allowed |-> FALSE, remaining |-> 0, reset_time |-> 0,
              status |-> 0, detail |-> "", verified |-> "",
              saved |-> FALSE, spawned |-> FALSE]

GatewayIdle ==
    /\ now = 0
    /\ _requests = [k \in RateKeys |-> <<>>]
    /\ _lock = 0
    /\ reqs = [s \in Slots |-> NoRequest]
    /\ arrivals = 0
    /\ allowed_log = <<>>

\* a request to one of the routes arrives on a free connection and
\* dispatch runs to its first await: call_next for an exempt path, else
\* is_allowed, which waits for the lock
Dispatch(s) ==
    /\ reqs[s].pc = "idle"
    /\ arrivals < MaxRequests
    /\ \E e \in Routes, h \in Headers :
          reqs' = [reqs EXCEPT ![s] =
                      [NoRequest EXCEPT !.pc = IF e.path \in EXEMPT_PATHS THEN "call_next"
                                               ELSE "is_allowed:lock",
                                        !.path = e.path, !.method = e.method, !.header = h]]
    /\ arrivals' = arrivals + 1
    /\ UNCHANGED <<now, _requests, _lock, allowed_log, svars, wvars, fvars, tvars, download>>

\* `async with self._lock` entered
AcquireLock(s) ==
    /\ reqs[s].pc = "is_allowed:lock"
    /\ _lock = 0
    /\ _lock' = s
    /\ reqs' = [reqs EXCEPT ![s].pc = "is_allowed:body"]
    /\ UNCHANGED <<now, _requests, arrivals, allowed_log, svars, wvars, fvars, tvars, download>>

\* a limiter that lets one request more through
Exceeded_OffByOne(total_requests, max_requests) == total_requests > max_requests

\* `if total_requests >= max_requests`
Exceeded(total_requests, max_requests) == total_requests >= max_requests

\* the timestamps is_allowed keeps: `ts > window_start`
Kept(entries, window_start) == SelectSeq(entries, LAMBDA ts : ts > window_start)

\* min(ts for ts, _ in entries)
Oldest(entries) == CHOOSE ts \in {entries[i] : i \in 1..Len(entries)} :
                      \A i \in 1..Len(entries) : ts <= entries[i]

\* the body of is_allowed under the lock, and the lock's release; a
\* request refused is answered 429 by dispatch
IsAllowed(s) ==
    /\ reqs[s].pc = "is_allowed:body"
    /\ _lock = s
    /\ LET key == RateKeyOf(reqs[s])
           max_requests == MaxRequestsOf(reqs[s])
           window_start == now - RATE_LIMIT_WINDOW
           kept == Kept(_requests[key], window_start)
           total_requests == Len(kept)
       IN IF Exceeded(total_requests, max_requests)
            THEN /\ _requests' = [_requests EXCEPT ![key] = kept]
                 /\ reqs' = [reqs EXCEPT ![s] =
                       [@ EXCEPT !.pc = "done", !.allowed = FALSE, !.remaining = 0,
                                 !.reset_time = IF kept # <<>>
                                                  THEN Oldest(kept) + RATE_LIMIT_WINDOW - now
                                                  ELSE RATE_LIMIT_WINDOW,
                                 !.status = TooManyRequests,
                                 !.detail = "Rate limit exceeded"]]
                 /\ allowed_log' = allowed_log
            ELSE /\ _requests' = [_requests EXCEPT ![key] = Append(kept, now)]
                 /\ reqs' = [reqs EXCEPT ![s] =
                       [@ EXCEPT !.pc = "call_next", !.allowed = TRUE,
                                 !.remaining = max_requests - total_requests - 1,
                                 !.reset_time = RATE_LIMIT_WINDOW]]
                 /\ allowed_log' = Append(allowed_log,
                       [key |-> key, ts |-> now, max_requests |-> max_requests,
                        remaining |-> max_requests - total_requests - 1,
                        file_upload |-> /\ reqs[s].method = "POST"
                                        /\ EndpointOf(reqs[s].path).file])
    /\ _lock' = 0
    /\ UNCHANGED <<now, arrivals, svars, wvars, fvars, tvars, download>>

\* `if not api_key`
Missing(api_key) == api_key \in {Absent, ""}

\* a check that accepts every key
Valid_Any(api_key) == TRUE

\* `api_key in settings.api_keys_list`
Valid(api_key) == api_key \in api_keys_list

\* call_next reaches an endpoint that depends on verify_api_key: the
\* dependency runs before the handler
VerifyApiKey(s) ==
    /\ reqs[s].pc = "call_next"
    /\ EndpointOf(reqs[s].path).auth
    /\ reqs' = [reqs EXCEPT ![s] =
          IF Missing(reqs[s].header)
            THEN [@ EXCEPT !.pc = "done", !.status = HTTP_401_UNAUTHORIZED,
                           !.detail = "Missing API key. Include 'X-API-Key' header."]
          ELSE IF ~Valid(reqs[s].header)
            THEN [@ EXCEPT !.pc = "done", !.status = HTTP_403_FORBIDDEN,
                           !.detail = "Invalid API key"]
          ELSE [@ EXCEPT !.pc = "handler", !.verified = reqs[s].header]]
    /\ UNCHANGED <<now, _requests, _lock, arrivals, allowed_log, svars, wvars, fvars, tvars, download>>

\* call_next reaches an endpoint without the dependency
CallNextOpen(s) ==
    /\ reqs[s].pc = "call_next"
    /\ ~EndpointOf(reqs[s].path).auth
    /\ reqs' = [reqs EXCEPT ![s].pc = "handler"]
    /\ UNCHANGED <<now, _requests, _lock, arrivals, allowed_log, svars, wvars, fvars, tvars, download>>

\* the handler runs: it saves the uploaded file and runs its processes
Handler(s) ==
    /\ reqs[s].pc = "handler"
    /\ reqs' = [reqs EXCEPT ![s] =
          [@ EXCEPT !.pc = "done", !.status = 200,
                    !.saved = EndpointOf(reqs[s].path).file,
                    !.spawned = EndpointOf(reqs[s].path).runs]]
    /\ UNCHANGED <<now, _requests, _lock, arrivals, allowed_log, svars, wvars, fvars, tvars, download>>

\* the response is sent and the connection is free again
Respond(s) ==
    /\ reqs[s].pc = "done"
    /\ reqs' = [reqs EXCEPT ![s] = NoRequest]
    /\ UNCHANGED <<now, _requests, _lock, arrivals, allowed_log, svars, wvars, fvars, tvars, download>>

\* a second passes
Tick ==
    /\ now < MaxClock
    /\ now' = now + 1
    /\ UNCHANGED <<_requests, _lock, reqs, arrivals, allowed_log, svars, wvars, fvars, tvars, download>>

----------------------------------------------------------------------------
(* FFMPEGService.download_video_from_url, chunk by chunk *)

\* settings.max_upload_size_bytes and DOWNLOAD_CHUNK_SIZE as configured
\* for the runs, in bytes, and the longest stream of chunks
max_upload_size_bytes == 3
DOWNLOAD_CHUNK_SIZE == 2
MaxChunks == 4

HTTP_413_REQUEST_ENTITY_TOO_LARGE == 413

allowed_video_extensions_list == {".mp4", ".avi", ".mov", ".mkv", ".webm", ".flv", ".wmv"}

\* the content-length header: absent, not a number, or a number
NoLength == [kind |-> "absent", n |-> 0]
BadLength == [kind |-> "not a number", n |-> 0]
Length(n) == [kind |-> "int", n |-> n]

NoDownload == [pc |-> "idle", scheme |-> "", ext |-> "", status_code |-> 0,
               content_length |-> NoLength, chunks |-> 0, total_size |-> 0,
               exists |-> FALSE, written |-> 0, raised |-> 0, detail |-> ""]

DownloadIdle == download = NoDownload

\* raise HTTPException(status, detail) to the caller; inside the try the
\* except clauses first remove the output file
DownloadRaise(d, status, detail, cleanup) ==
    [d EXCEPT !.pc = "raised", !.raised = status, !.detail = detail,
              !.exists = IF cleanup THEN FALSE ELSE @,
              !.written = IF cleanup THEN 0 ELSE @]

\* from the call to the request's await: the scheme and extension checks
DownloadStart ==
    /\ download.pc = "start"
    /\ download' = IF download.scheme \notin {"http", "https"}
               THEN DownloadRaise(download, HTTP_400_BAD_REQUEST,
                                  "Video URL must start with http:// or https://", FALSE)
             ELSE IF download.ext # "" /\ download.ext \notin allowed_video_extensions_list
               THEN DownloadRaise(download, HTTP_400_BAD_REQUEST,
                                  "Video URL extension not allowed", FALSE)
             ELSE [download EXCEPT !.pc = "client.stream"]
    /\ UNCHANGED <<svars, wvars, fvars, tvars, gvars>>

\* the response headers arrived: the status and declared-size checks,
\* then open(output_path, "wb"), which may fail
DownloadResponse ==
    /\ download.pc = "client.stream"
    /\ \E status_code \in {200, 404, 500},
          content_length \in {NoLength, BadLength}
                                \cup {Length(n) : n \in 0..(max_upload_size_bytes + 1)},
          opened \in BOOLEAN :
          LET d == [download EXCEPT !.status_code = status_code, !.content_length = content_length]
          IN download' = IF status_code >= 400
                     THEN DownloadRaise(d, HTTP_502_BAD_GATEWAY,
                                        "Failed to download video (status)", TRUE)
                   ELSE IF /\ content_length.kind = "int"
                           /\ content_length.n > max_upload_size_bytes
                     THEN DownloadRaise(d, HTTP_413_REQUEST_ENTITY_TOO_LARGE,
                                        "Video too large", TRUE)
                   ELSE IF ~opened
                     THEN DownloadRaise(d, HTTP_502_BAD_GATEWAY, "Failed to download video", TRUE)
                   ELSE [d EXCEPT !.pc = "aiter_bytes", !.exists = TRUE]
    /\ UNCHANGED <<svars, wvars, fvars, tvars, gvars>>

\* a download that never finds the stream too large
OverCap_Never(total_size, max_size) == FALSE

\* `if total_size > max_size`
OverCap(total_size, max_size) == total_size > max_size

\* a chunk of n bytes arrived: an empty one is skipped, one that takes the
\* total over the cap raises before it is written
DownloadChunk ==
    /\ download.pc = "aiter_bytes"
    /\ download.chunks < MaxChunks
    /\ \E n \in 0..DOWNLOAD_CHUNK_SIZE :
          LET d == [download EXCEPT !.chunks = @ + 1]
          IN download' = IF n = 0 THEN d
                   ELSE IF OverCap(download.total_size + n, max_upload_size_bytes)
                     THEN DownloadRaise([d EXCEPT !.total_size = @ + n],
                                        HTTP_413_REQUEST_ENTITY_TOO_LARGE, "Video too large", TRUE)
                   ELSE [d EXCEPT !.total_size = @ + n, !.written = @ + n]
    /\ UNCHANGED <<svars, wvars, fvars, tvars, gvars>>

\* the stream ended: the path is returned
DownloadReturn ==
    /\ download.pc = "aiter_bytes"
    /\ download' = [download EXCEPT !.pc = "returned"]
    /\ UNCHANGED <<svars, wvars, fvars, tvars, gvars>>

\* the connection or the transfer failed: `except Exception`
DownloadNetworkError ==
    /\ download.pc \in {"client.stream", "aiter_bytes"}
    /\ download' = DownloadRaise(download, HTTP_502_BAD_GATEWAY, "Failed to download video", TRUE)
    /\ UNCHANGED <<svars, wvars, fvars, tvars, gvars>>

\* the request's task is cancelled at an await: CancelledError is caught
\* by neither except clause, the file stays as it is
DownloadCancelled ==
    /\ download.pc \in {"client.stream", "aiter_bytes"}
    /\ download' = [download EXCEPT !.pc = "cancelled"]
    /\ UNCHANGED <<svars, wvars, fvars, tvars, gvars>>

----------------------------------------------------------------------------
(* Specification *)

AllSources == {SourcePath(i) : i \in 1..MaxSegments}
                 \cup {MainPath, IntroPath, OutroPath, CaptionVideoPath, InputPath}
DefaultMedia == [video |-> TRUE, w |-> 1280, h |-> 720, audio |-> TRUE]

\* the media of the sources a request uses, drawn from kinds
MediaFor(used, kinds) ==
    {[p \in AllSources |-> IF p \in used THEN f[p] ELSE DefaultMedia] : f \in [used -> kinds]}

WrapIdle ==
    /\ wtext = <<>>
    /\ wmax = 1
    /\ wout = [done |-> FALSE, raised |-> FALSE, lines |-> <<>>]

NotApplied == [done |-> FALSE]

FunIdle ==
    /\ fin = <<>>
    /\ fout = NotApplied

NoRatio ==
    /\ ratio = ""
    /\ background_color = ""

InitCommon ==
    /\ exc = NoExc
    /\ cmd = NoCmd
    /\ procs = <<>>
    /\ rcRet = NoRc
    /\ info = NoInfo
    /\ dims = NoDims
    /\ hasAudio = FALSE
    /\ result = NoResult
    /\ manifest = <<>>
    /\ index = 1
    /\ downloaded_paths = <<>>
    /\ segment_paths = <<>>
    /\ target = NoDims
    /\ normalized_paths = <<>>
    /\ dlRet = NoPath
    /\ upRet = NoUpload
    /\ steps = <<>>
    /\ response = NoResponse
    /\ script = NoScript
    /\ vf = NoFilter

\* a POST /videos/concat request with 1..MaxSegments validated segments
InitConcatVideos ==
    /\ op = "concat_videos"
    /\ nseg \in 1..MaxSegments
    /\ upload \in BOOLEAN
    /\ inputs = <<>>
    /\ media \in MediaFor({SourcePath(i) : i \in 1..nseg}, MediaKinds)
    /\ captions = <<>>
    /\ font_size = 0
    /\ stack = <<"concat_videos:start">>
    /\ files = {}
    /\ InitCommon
    /\ WrapIdle
    /\ FunIdle
    /\ GatewayIdle
    /\ DownloadIdle
    /\ NoRatio

\* a call of append_intro_outro on the saved uploads
InitAppend ==
    /\ op = "append_intro_outro"
    /\ nseg = 0
    /\ upload = FALSE
    /\ \E intro \in BOOLEAN, outro \in BOOLEAN : inputs = AppendInputs(intro, outro)
    /\ media \in MediaFor(Range(inputs), MediaKinds)
    /\ captions = <<>>
    /\ font_size = 0
    /\ stack = <<"append_intro_outro:start">>
    /\ files = Range(inputs)
    /\ InitCommon
    /\ WrapIdle
    /\ FunIdle
    /\ GatewayIdle
    /\ DownloadIdle
    /\ NoRatio

\* the captions a request may carry: valid ones, blank text, end <= start,
\* texts that wrap to one, two and more than two lines
CaptionKinds ==
    { [text |-> <<"a", "a">>, start |-> 0, end |-> 1500],
      [text |-> <<" ">>, start |-> 0, end |-> 1500],
      [text |-> <<"a", " ", "b", " ", "c">>, start |-> 1500, end |-> 2004],
      [text |-> <<"a", "a">>, start |-> 2004, end |-> 1000],
      [text |-> <<"a", "a", "a", " ", "b", "b", "b", " ", "c", "c", "c">>,
       start |-> 1000, end |-> 1000],
      [text |-> <<"a", "a", "a", " ", "b", "b", "b", " ", "c", "c", "c">>,
       start |-> 0, end |-> 60000] }

\* videos narrow enough for 2 and 3 characters a line at font size 72,
\* a 720p video, and a file without a video stream
CaptionMediaKinds ==
    { [video |-> TRUE,  w |-> 160,  h |-> 120, audio |-> TRUE],
      [video |-> TRUE,  w |-> 200,  h |-> 120, audio |-> TRUE],
      [video |-> TRUE,  w |-> 1280, h |-> 720, audio |-> TRUE],
      [video |-> FALSE, w |-> 0,    h |-> 0,   audio |-> TRUE] }

\* a call of add_captions_to_video on the saved upload
InitCaptions ==
    /\ op = "add_captions_to_video"
    /\ nseg = 0
    /\ upload = FALSE
    /\ inputs = <<>>
    /\ media \in MediaFor({CaptionVideoPath}, CaptionMediaKinds)
    /\ captions \in UNION {[1..n -> CaptionKinds] : n \in 1..MaxCaptions}
    /\ font_size \in {0, 72}
    /\ stack = <<"add_captions_to_video:start">>
    /\ files = {CaptionVideoPath}
    /\ InitCommon
    /\ WrapIdle
    /\ FunIdle
    /\ GatewayIdle
    /\ DownloadIdle
    /\ NoRatio

ServiceIdle ==
    /\ nseg = 0
    /\ upload = FALSE
    /\ inputs = <<>>
    /\ media \in MediaFor({}, MediaKinds)
    /\ captions = <<>>
    /\ font_size = 0
    /\ stack = <<>>
    /\ files = {}
    /\ InitCommon
    /\ NoRatio

\* the uploads of the endpoints on one file: landscape, portrait, odd
\* and tiny sizes, and a file without a video stream
TransformMediaKinds ==
    { [video |-> TRUE,  w |-> 1920, h |-> 1080, audio |-> TRUE],
      [video |-> TRUE,  w |-> 1080, h |-> 1920, audio |-> TRUE],
      [video |-> TRUE,  w |-> 7,    h |-> 3,    audio |-> FALSE],
      [video |-> TRUE,  w |-> 3,    h |-> 101,  audio |-> FALSE],
      [video |-> TRUE,  w |-> 1,    h |-> 1,    audio |-> FALSE],
      [video |-> TRUE,  w |-> 8,    h |-> 8,    audio |-> TRUE],
      [video |-> FALSE, w |-> 0,    h |-> 0,    audio |-> TRUE] }

\* a request to one of the endpoints on one uploaded file; the ratio and
\* the colour are free-form form fields
InitTransform ==
    /\ op \in TransformOps
    /\ nseg = 0
    /\ upload \in BOOLEAN
    /\ inputs = <<>>
    /\ media \in MediaFor({InputPath}, TransformMediaKinds)
    /\ captions = <<>>
    /\ font_size \in IF op = "add_image_caption" THEN {0, 72} ELSE {0}
    /\ ratio \in IF op \in {"convert_aspect_ratio", "crop_vertical_video"}
                 THEN {"9:16", "1:1", "16:9", "4:3"} ELSE {""}
    /\ background_color \in IF op = "convert_aspect_ratio" THEN {"black", "white"} ELSE {""}
    /\ stack = <<"endpoint:save_upload_file">>
    /\ files = {}
    /\ InitCommon
    /\ WrapIdle
    /\ FunIdle
    /\ GatewayIdle
    /\ DownloadIdle

Init == InitConcatVideos \/ InitAppend \/ InitCaptions \/ InitTransform

Next ==
    \/ RunCommandSpawn
    \/ RunCommandSpawnError
    \/ RunCommandExit
    \/ RunCommandTimeout
    \/ RunCommandCancelled
    \/ GetVideoInfoReturn
    \/ GetMediaDimensionsReturn
    \/ HasAudioStreamReturn
    \/ Propagate
    \/ TrimVideoSegmentRun
    \/ TrimVideoSegmentReturn
    \/ NormalizeVideoClipRun
    \/ NormalizeVideoClipReturn
    \/ ConcatSegmentsAfterCopy
    \/ ConcatSegmentsAfterReencode
    \/ ConcatSegmentsFinally
    \/ DownloadOk
    \/ DownloadFail
    \/ UploadOk
    \/ UploadFail
    \/ ConcatVideosStart
    \/ ConcatVideosAfterDownload
    \/ ConcatVideosAfterDimensions
    \/ ConcatVideosAfterTrim
    \/ ConcatVideosAfterConcat
    \/ ConcatVideosAfterUpload
    \/ ConcatVideosFinally
    \/ AppendIntroOutroStart
    \/ AppendAfterDimensions
    \/ AppendAfterNormalize
    \/ AppendAfterConcat
    \/ AppendFinally
    \/ AddCaptionsStart
    \/ AddCaptionsAfterDimensions
    \/ AddCaptionsAfterRun
    \/ AddCaptionsExcept
    \/ OrphanExit
    \/ SaveUploadOk
    \/ SaveUploadFail
    \/ ConvertAspectRatioRun
    \/ SmartCropVideoRun
    \/ ResolveFontSizeReturn
    \/ ResolveFontSizeExcept
    \/ GetVideoDurationReturn
    \/ ExtractLastFrameRun
    \/ TransformReturn
    \/ EndpointAfterService
    \/ EndpointAfterUpload
    \/ EndpointFinally

Spec == Init /\ [][Next]_vars

----------------------------------------------------------------------------
(* concat_videos and append_intro_outro under the scheduling of the event
   loop *)

InitLive == InitConcatVideos \/ InitAppend

NextLive ==
    \/ RunCommandSpawn
    \/ RunCommandSpawnError
    \/ RunCommandExit
    \/ RunCommandTimeout
    \/ RunCommandCancelled
    \/ GetVideoInfoReturn
    \/ GetMediaDimensionsReturn
    \/ HasAudioStreamReturn
    \/ Propagate
    \/ TrimVideoSegmentRun
    \/ TrimVideoSegmentReturn
    \/ NormalizeVideoClipRun
    \/ NormalizeVideoClipReturn
    \/ ConcatSegmentsAfterCopy
    \/ ConcatSegmentsAfterReencode
    \/ ConcatSegmentsFinally
    \/ DownloadOk
    \/ DownloadFail
    \/ UploadOk
    \/ UploadFail
    \/ ConcatVideosStart
    \/ ConcatVideosAfterDownload
    \/ ConcatVideosAfterDimensions
    \/ ConcatVideosAfterTrim
    \/ ConcatVideosAfterConcat
    \/ ConcatVideosAfterUpload
    \/ ConcatVideosFinally
    \/ AppendIntroOutroStart
    \/ AppendAfterDimensions
    \/ AppendAfterNormalize
    \/ AppendAfterConcat
    \/ AppendFinally
    \/ OrphanExit

\* the steps that are bound to happen: a coroutine whose awaited call has
\* returned or raised is resumed; create_subprocess_exec returns or
\* raises; a download and an upload end or raise; the timer of wait_for
\* fires on a process that has not exited. A process need never exit on
\* its own and the client need never disconnect.
Progress ==
    \/ RunCommandSpawn
    \/ RunCommandSpawnError
    \/ RunCommandTimeout
    \/ GetVideoInfoReturn
    \/ GetMediaDimensionsReturn
    \/ HasAudioStreamReturn
    \/ Propagate
    \/ TrimVideoSegmentRun
    \/ TrimVideoSegmentReturn
    \/ NormalizeVideoClipRun
    \/ NormalizeVideoClipReturn
    \/ ConcatSegmentsAfterCopy
    \/ ConcatSegmentsAfterReencode
    \/ ConcatSegmentsFinally
    \/ DownloadOk
    \/ DownloadFail
    \/ UploadOk
    \/ UploadFail
    \/ ConcatVideosStart
    \/ ConcatVideosAfterDownload
    \/ ConcatVideosAfterDimensions
    \/ ConcatVideosAfterTrim
    \/ ConcatVideosAfterConcat
    \/ ConcatVideosAfterUpload
    \/ ConcatVideosFinally
    \/ AppendIntroOutroStart
    \/ AppendAfterDimensions
    \/ AppendAfterNormalize
    \/ AppendAfterConcat
    \/ AppendFinally

SpecLive == InitLive /\ [][NextLive]_vars /\ WF_vars(Progress)

----------------------------------------------------------------------------
(* _wrap_caption_text on every text of at most MaxTextLen characters *)

Alphabet == {"a", "b", " "}
Texts == UNION {[1..n -> Alphabet] : n \in 0..MaxTextLen}

InitWrap ==
    /\ op = "_wrap_caption_text"
    /\ ServiceIdle
    /\ wtext \in Texts
    /\ wmax \in 1..MaxWidth
    /\ wout = [done |-> FALSE, raised |-> FALSE, lines |-> <<>>]
    /\ FunIdle
    /\ GatewayIdle
    /\ DownloadIdle

NextWrap == ApplyWrap

SpecWrap == InitWrap /\ [][NextWrap]_vars

----------------------------------------------------------------------------
(* FFMPEGService._ass_color, _parse_alpha, _split_color_alpha and
   _ass_color_with_alpha, on strings as sequences of characters *)

ASS_COLOR_FALLBACK == <<"&", "H", "0", "0", "F", "F", "F", "F", "F", "F">>
ASS_OUTLINE_FALLBACK == <<"&", "H", "0", "0", "0", "0", "0", "0", "0", "0">>

LowerHexChars == <<"0", "1", "2", "3", "4", "5", "6", "7", "8", "9",
                   "a", "b", "c", "d", "e", "f">>
UpperHexChars == <<"0", "1", "2", "3", "4", "5", "6", "7", "8", "9",
                   "A", "B", "C", "D", "E", "F">>
\* the letters of the colour strings, lower and upper case
LowerLetters == <<"a", "b", "c", "d", "e", "f", "g", "h", "i", "k", "l", "n",
                  "o", "r", "t", "u", "w", "y", "z">>
UpperLetters == <<"A", "B", "C", "D", "E", "F", "G", "H", "I", "K", "L", "N",
                  "O", "R", "T", "U", "W", "Y", "Z">>

\* the character at the place of c in the sequence to, when c is in from
Mapped(c, from, to) ==
    IF \E i \in 1..Len(from) : from[i] = c
    THEN to[CHOOSE i \in 1..Len(from) : from[i] = c] ELSE c

\* str.lower() and str.upper()
Lower(str) == [i \in 1..Len(str) |-> Mapped(str[i], UpperLetters, LowerLetters)]
Upper(str) == [i \in 1..Len(str) |-> Mapped(str[i], LowerLetters, UpperLetters)]

RECURSIVE StripLeft(_)
StripLeft(str) ==
    IF str # <<>> /\ str[1] = " " THEN StripLeft(Tail(str)) ELSE str

RECURSIVE StripRight(_)
StripRight(str) ==
    IF str # <<>> /\ str[Len(str)] = " "
    THEN StripRight(SubSeq(str, 1, Len(str) - 1)) ELSE str

\* str.strip()
Strip(str) == StripRight(StripLeft(str))

Chars(str) == {str[i] : i \in 1..Len(str)}
IsLowerHex(c) == \E i \in 1..16 : LowerHexChars[i] = c

NamedColors ==
    { <<<<"w", "h", "i", "t", "e">>, <<"f", "f", "f", "f", "f", "f">>>>,
      <<<<"b", "l", "a", "c", "k">>, <<"0", "0", "0", "0", "0", "0">>>>,
      <<<<"r", "e", "d">>, <<"f", "f", "0", "0", "0", "0">>>>,
      <<<<"g", "r", "e", "e", "n">>, <<"0", "0", "f", "f", "0", "0">>>>,
      <<<<"b", "l", "u", "e">>, <<"0", "0", "0", "0", "f", "f">>>>,
      <<<<"y", "e", "l", "l", "o", "w">>, <<"f", "f", "f", "f", "0", "0">>>> }

IsNamed(color) == \E n \in NamedColors : n[1] = color
NamedHex(color) == (CHOOSE n \in NamedColors : n[1] = color)[2]

_ass_color(color, fallback) ==
    IF color = <<>> THEN fallback
    ELSE LET c == Lower(Strip(color))
             known == \/ IsNamed(c)
                      \/ c # <<>> /\ c[1] = "#" /\ Len(c) = 7
                      \/ Len(c) = 6 /\ \A ch \in Chars(c) : IsLowerHex(ch)
             hex_color == IF IsNamed(c) THEN NamedHex(c)
                          ELSE IF c # <<>> /\ c[1] = "#" /\ Len(c) = 7 THEN Tail(c)
                          ELSE c
         IN IF ~known THEN fallback
            ELSE <<"&", "H", "0", "0">> \o Upper(SubSeq(hex_color, 5, 6))
                     \o Upper(SubSeq(hex_color, 3, 4)) \o Upper(SubSeq(hex_color, 1, 2))

\* float(str) in millionths, on strings of digits with at most one point
\* and at most two digits after it; -1 for the strings float() rejects
\* among those made of digits, point, percent sign, letters and spaces
ParseFloat(str) ==
    LET points == {i \in 1..Len(str) : str[i] = "."}
        dot == IF points = {} THEN Len(str) + 1 ELSE CHOOSE i \in points : TRUE
        whole == SubSeq(str, 1, dot - 1)
        frac == SubSeq(str, dot + 1, Len(str))
        frac2 == SubSeq(frac \o <<"0", "0">>, 1, 2)
    IN IF \/ Cardinality(points) > 1
          \/ whole = <<>> /\ frac = <<>>
          \/ \E c \in Chars(whole) \cup Chars(frac) : ~IsDigit(c)
       THEN 0 - 1
       ELSE (NumberOf(whole) * 100 + NumberOf(frac2)) * 10000

NoAlpha == 0 - 1
Million == 1000000

\* None is NoAlpha, an alpha in [0, 1] is its number of millionths
_parse_alpha(value) ==
    IF value = <<>> THEN NoAlpha
    ELSE LET v == Strip(value)
             percent == v # <<>> /\ v[Len(v)] = "%"
             parsed == IF percent THEN ParseFloat(SubSeq(v, 1, Len(v) - 1))
                       ELSE ParseFloat(v)
         IN IF parsed < 0 THEN NoAlpha
            ELSE IF percent THEN parsed \div 100
            ELSE LET alpha == IF parsed > Million /\ parsed <= 100 * Million
                              THEN parsed \div 100 ELSE parsed
                 IN IF alpha <= Million THEN alpha ELSE NoAlpha

\* (base, alpha) of "base@alpha", split at the last @
_split_color_alpha(color) ==
    IF color = <<>> THEN <<<<>>, NoAlpha>>
    ELSE LET c == Strip(color)
             ats == {i \in 1..Len(c) : c[i] = "@"}
         IN IF ats = {} THEN <<c, NoAlpha>>
            ELSE LET at == CHOOSE i \in ats : \A j \in ats : j <= i
                 IN <<Strip(SubSeq(c, 1, at - 1)),
                      _parse_alpha(SubSeq(c, at + 1, Len(c)))>>

\* "{n:02X}"
Hex02(n) == <<UpperHexChars[(n \div 16) + 1], UpperHexChars[(n % 16) + 1]>>

_ass_color_with_alpha(color, fallback) ==
    LET split == _split_color_alpha(color)
        color_value == _ass_color(split[1], fallback)
        alpha == Max(0, Min(split[2], Million))
        alpha_byte == Round(alpha * 255, Million)
    IN IF split[2] = NoAlpha THEN color_value
       ELSE <<"&", "H">> \o Hex02(alpha_byte) \o SubSeq(color_value, 5, Len(color_value))

----------------------------------------------------------------------------
(* _ass_color_with_alpha applied to colour specifications: a base (a
   named colour, six hex digits with or without #, or something else),
   optionally followed by @ and an alpha *)

HexBytes == {<<"0", "0">>, <<"f", "f">>, <<"1", "a">>, <<"F", "0">>}
HexColors == {r \o g \o b : r \in HexBytes, g \in HexBytes, b \in HexBytes}

OtherBases ==
    { <<>>, <<" ">>, <<"b", "o", "g", "u", "s">>,
      <<"z", "z", "z", "z", "z", "z">>, <<"#", "z", "z", "z", "z", "z", "z">>,
      <<"f", "f", "0", "0">>, <<"#", "f", "f", "0", "0">>,
      <<"#", "f", "f", "0", "0", "0", "0", "0">>,
      <<" ", "R", "e", "d", " ">>, <<"#">> }

ColorBases ==
    {n[1] : n \in NamedColors} \cup HexColors \cup {<<"#">> \o h : h \in HexColors}
        \cup OtherBases

AlphaSuffixes ==
    { <<>>, <<"@">>, <<"@", "0", ".", "5">>, <<"@", "5", "0", "%">>,
      <<"@", "0", ".", "6", "5">>, <<"@", "1">>, <<"@", "0">>, <<"@", "2">>,
      <<"@", "1", "5", "0">>, <<"@", "1", "5", "0", "%">>, <<"@", ".">>,
      <<"@", "h", "i", "g", "h">>, <<"@", " ", ".", "5", " ">> }

ColorSpecs == {b \o a : b \in ColorBases, a \in AlphaSuffixes}

ApplyAssColor ==
    /\ op = "_ass_color_with_alpha"
    /\ ~fout.done
    /\ fout' = [done |-> TRUE, value |-> _ass_color_with_alpha(fin.color, fin.fallback)]
    /\ UNCHANGED <<svars, wvars, fin, tvars, evars>>

InitAssColor ==
    /\ op = "_ass_color_with_alpha"
    /\ ServiceIdle
    /\ WrapIdle
    /\ GatewayIdle
    /\ DownloadIdle
    /\ fin \in [color : ColorSpecs, fallback : {ASS_COLOR_FALLBACK, ASS_OUTLINE_FALLBACK}]
    /\ fout = NotApplied

NextAssColor == ApplyAssColor

SpecAssColor == InitAssColor /\ [][NextAssColor]_vars

----------------------------------------------------------------------------
(* the caption style resolved for every height up to MaxHeight and every
   font_size the caption endpoint accepts: None (0) or 8..72 *)

MinHeight == 500
FontSizes == {0} \cup 8..72

ApplyStyle ==
    /\ op = "resolve_style"
    /\ ~fout.done
    /\ fout' = [done |-> TRUE, style |-> ResolvedStyle(fin.height, fin.font_size)]
    /\ UNCHANGED <<svars, wvars, fin, tvars, evars>>

InitStyle ==
    /\ op = "resolve_style"
    /\ ServiceIdle
    /\ WrapIdle
    /\ GatewayIdle
    /\ DownloadIdle
    /\ fin \in [height : MinHeight..MaxHeight, font_size : FontSizes]
    /\ fout = NotApplied

NextStyle == ApplyStyle

SpecStyle == InitStyle /\ [][NextStyle]_vars

----------------------------------------------------------------------------
(* _format_ass_time applied to two times, in milliseconds: negative ones,
   the first MaxTimeMs milliseconds, and the times around one minute, one
   hour and ten hours *)

Around(ms) == (ms - 20)..(ms + 10)
Times == (0 - 20)..MaxTimeMs \cup Around(60000) \cup Around(3600000) \cup Around(36000000)

ApplyFormatTime ==
    /\ op = "_format_ass_time"
    /\ ~fout.done
    /\ \E ca \in TotalCs(fin.a), cb \in TotalCs(fin.b) :
          fout' = [done |-> TRUE,
                   a |-> AssTimeString(AssTimeFields(ca)),
                   b |-> AssTimeString(AssTimeFields(cb))]
    /\ UNCHANGED <<svars, wvars, fin, tvars, evars>>

InitFormatTime ==
    /\ op = "_format_ass_time"
    /\ ServiceIdle
    /\ WrapIdle
    /\ GatewayIdle
    /\ DownloadIdle
    /\ fin \in [a : Times, b : Times]
    /\ fout = NotApplied

NextFormatTime == ApplyFormatTime

SpecFormatTime == InitFormatTime /\ [][NextFormatTime]_vars

----------------------------------------------------------------------------
(* the requests of one window, one at a time, to any route with any
   header, through the rate limiter, the authentication dependency and
   the handler *)

InitGateway ==
    /\ op = "dispatch"
    /\ ServiceIdle
    /\ WrapIdle
    /\ FunIdle
    /\ GatewayIdle
    /\ DownloadIdle

NextGateway ==
    \/ \E s \in Connections : Dispatch(s)
    \/ \E s \in Connections : AcquireLock(s)
    \/ \E s \in Connections : IsAllowed(s)
    \/ \E s \in Connections : VerifyApiKey(s)
    \/ \E s \in Connections : CallNextOpen(s)
    \/ \E s \in Connections : Handler(s)
    \/ \E s \in Connections : Respond(s)

SpecGateway == InitGateway /\ [][NextGateway]_vars

----------------------------------------------------------------------------
(* RateLimiter.is_allowed under the concurrent requests of one client *)

InitLimiter ==
    /\ op = "is_allowed"
    /\ ServiceIdle
    /\ WrapIdle
    /\ FunIdle
    /\ GatewayIdle
    /\ DownloadIdle

NextLimiter ==
    \/ \E s \in Connections : Dispatch(s)
    \/ \E s \in Connections : AcquireLock(s)
    \/ \E s \in Connections : IsAllowed(s)
    \/ \E s \in Connections : VerifyApiKey(s)
    \/ \E s \in Connections : Handler(s)
    \/ \E s \in Connections : Respond(s)
    \/ Tick

SpecLimiter == InitLimiter /\ [][NextLimiter]_vars

----------------------------------------------------------------------------
(* download_video_from_url on URLs of every scheme and extension kind *)

InitDownload ==
    /\ op = "download_video_from_url"
    /\ ServiceIdle
    /\ WrapIdle
    /\ FunIdle
    /\ GatewayIdle
    /\ \E scheme \in {"http", "https", "ftp", ""}, ext \in {"", ".mp4", ".exe"} :
          download = [NoDownload EXCEPT !.pc = "start", !.scheme = scheme, !.ext = ext]

NextDownload ==
    \/ DownloadStart
    \/ DownloadResponse
    \/ DownloadChunk
    \/ DownloadReturn
    \/ DownloadNetworkError
    \/ DownloadCancelled

SpecDownload == InitDownload /\ [][NextDownload]_vars

----------------------------------------------------------------------------
(* Properties of run_command *)

LastProc == procs[Len(procs)]
LastProcNext == procs'[Len(procs')]

\* run_command returns to its caller from the await of the process
RunCommandReturns ==
    /\ At("run_command:wait_for")
    /\ stack' = Below
    /\ exc' = NoExc

\* C1: when the process does not finish within the timeout, run_command
\* returns success = false with the message 'Operation timed out after
\* <timeout> seconds', which is not the stderr of the process, and the
\* process is killed, no longer running; a process that did finish has
\* its own stderr returned
C1_TimeoutKillsAndReports ==
    [][RunCommandReturns =>
         IF LastProcNext.status = "exited"
           THEN /\ rcRet'.stderr = StderrOf(Len(procs))
                /\ rcRet'.stderr # TimeoutMessage(FFMPEG_TIMEOUT)
           ELSE /\ rcRet'.success = FALSE
                /\ rcRet'.stdout = ""
                /\ rcRet'.stderr = TimeoutMessage(FFMPEG_TIMEOUT)
                /\ rcRet'.stderr # StderrOf(Len(procs))
                /\ LastProcNext.status = "killed"
                /\ \A k \in 1..Len(procs') : procs'[k].status # "running"]_vars

C1_Witness ==
    /\ Len(procs) > 0
    /\ LastProc.status = "killed"
    /\ LastProc.cmd.kind = "trim"
    /\ rcRet = [success |-> FALSE, stdout |-> "", stderr |-> TimeoutMessage(FFMPEG_TIMEOUT)]
    /\ At("trim_video_segment:run_command")

\* C2: in no reachable state has the request ended by cancellation while
\* a process it spawned is still running
C2_CancelledRequestLeavesNoProcess ==
    response.kind = "cancelled" => \A k \in 1..Len(procs) : procs[k].status # "running"

----------------------------------------------------------------------------
(* Properties of concat_segments *)

Invocations(kind) == {k \in 1..Len(procs) : procs[k].cmd.kind = kind}
Succeeded(k) == procs[k].status = "exited" /\ procs[k].code = 0

\* concat_segments has returned to the operation that called it
ConcatSegmentsReturned ==
    \/ Running("concat_videos:concat_segments")
    \/ Running("append_intro_outro:concat_segments")

\* C3: if the stream-copy invocation fails, the re-encode invocation over
\* the same list file runs next and the result is the fallback's: success
\* iff it succeeded and the output exists, else its stderr as the error;
\* if the stream copy succeeds the re-encode command is never run
C3_FallbackDecidesResult ==
    /\ \A r \in Invocations("concat_reencode") :
          /\ r > 1
          /\ procs[r - 1].cmd.kind = "concat_copy"
          /\ ~Succeeded(r - 1)
          /\ procs[r].cmd.in = procs[r - 1].cmd.in
          /\ (Running("run_command:wait_for") /\ r = Len(procs)) => ListPath \in files
    /\ ConcatSegmentsReturned =>
          \A c \in Invocations("concat_copy") :
             IF Succeeded(c)
               THEN Invocations("concat_reencode") = {}
               ELSE /\ Invocations("concat_reencode") = {c + 1}
                    /\ result.success = (Succeeded(c + 1) /\ OutputPath \in files)
                    /\ ~result.success =>
                          /\ result.error = rcRet.stderr
                          /\ result.error # StderrOf(c)
                          /\ procs[c + 1].status = "exited" => result.error = StderrOf(c + 1)

C3_Witness ==
    /\ ConcatSegmentsReturned
    /\ \E c \in Invocations("concat_copy") :
          /\ procs[c].status = "exited" /\ procs[c].code = 1
          /\ c + 1 \in Invocations("concat_reencode")
          /\ procs[c + 1].status = "exited" /\ procs[c + 1].code = 1
    /\ ~result.success

----------------------------------------------------------------------------
(* Properties of concat_videos *)

\* a step of concat_videos is known to have failed
ConcatVideosFailed ==
    \/ exc # NoExc
    \/ response.kind = "error"
    \/ /\ Running("concat_videos:trim_video_segment") \/ Running("concat_videos:concat_segments")
       /\ ~result.success

ProbeFailures == {"Failed to read video info", "Invalid video file"}

\* the exception e is the failure of the step `last`: rc is what the last
\* run_command returned, res the last FFMPEGResult
FailureOf(last, e, rc, res) ==
    /\ last.step = "download" => e.msg = "Failed to download video"
    /\ last.step = "probe" =>
          /\ e.status = HTTP_400_BAD_REQUEST
          /\ e.msg \in ProbeFailures \cup {"Could not determine media dimensions"}
          /\ e.msg = "Failed to read video info" => e.err = rc.stderr
    /\ last.step = "trim" =>
          \/ /\ e.status = HTTP_500_INTERNAL_SERVER_ERROR
             /\ e.msg = "Failed to trim segment"
             /\ e.err = rc.stderr
          \/ /\ e.status = HTTP_400_BAD_REQUEST
             /\ e.msg \in ProbeFailures
    /\ last.step = "concat" =>
          \/ /\ e.status = HTTP_500_INTERNAL_SERVER_ERROR
             /\ e.msg = "Failed to concatenate videos"
             /\ e.err = res.error
          \/ e = OSError
    /\ last.step = "upload" => e.msg = "Failed to upload to R2"

\* C4: in concat_videos, once a step (download, dimension probe, trim,
\* concat, upload) has failed no later step and no further process is
\* started, the caller receives the failure of that step, and every
\* downloaded source and trimmed segment has been removed when the
\* operation ends
C4_FailureStopsAndCleans ==
    [][op = "concat_videos" =>
         /\ ConcatVideosFailed => (steps' = steps /\ Len(procs') = Len(procs))
         /\ response'.kind = "error" =>
               /\ stack' = <<>>
               /\ \A f \in files' : f.kind \notin {"concat_src", "concat_seg"}
               /\ Len(steps') > 0
               /\ FailureOf(steps'[Len(steps')], response'.exc, rcRet', result')]_vars

C4_Witness ==
    /\ op = "concat_videos"
    /\ response.kind = "error"
    /\ response.exc.msg = "Failed to trim segment"
    /\ Len(downloaded_paths) = 2
    /\ Len(segment_paths) = 2
    /\ steps[Len(steps)] = Step("trim", 2)

InStack(ls) == \E i \in 1..Len(stack) : stack[i] \in ls

\* C5: outside a cancelled request, the subtitle script exists only while
\* add_captions_to_video runs its command, the concat list only while
\* concat_segments runs, the normalized clips only inside the try of
\* append_intro_outro: none exists once the operation returned or raised
C5_ScratchRemoved ==
    response.kind # "cancelled" =>
       /\ SubtitlePath \in files => InStack({"add_captions_to_video:run_command"})
       /\ ListPath \in files => InStack({"concat_segments:copy", "concat_segments:reencode"})
       /\ \A f \in files : f.kind = "append" =>
             InStack({"append_intro_outro:_normalize_video_clip",
                      "append_intro_outro:concat_segments"})

C5_Witness ==
    /\ op = "add_captions_to_video"
    /\ response.kind = "returned"
    /\ script.written
    /\ Len(procs) > 0 /\ LastProc.cmd.kind = "captions" /\ LastProc.status = "killed"
    /\ response.result.error = TimeoutMessage(FFMPEG_TIMEOUT)

DimensionProbes == {i \in 1..Len(steps) : steps[i].step = "probe"}
DimsOf(m) == <<m.w, m.h>>

\* C6: concat_videos probes dimensions once, on the first segment's
\* source, and every trim of every segment is given those dimensions
C6_TargetFromFirstSegment ==
    op = "concat_videos" =>
       /\ Cardinality(DimensionProbes) <= 1
       /\ \A i \in DimensionProbes : steps[i].n = 1
       /\ target # NoDims => target = DimsOf(media[SourcePath(1)])
       /\ \A i \in 1..Len(steps) : steps[i].step = "trim" =>
             /\ Cardinality(DimensionProbes) = 1
             /\ target = DimsOf(media[SourcePath(1)])
       /\ \A k \in Invocations("trim") :
             <<procs[k].cmd.w, procs[k].cmd.h>> = DimsOf(media[SourcePath(1)])

C6_Witness ==
    /\ op = "concat_videos"
    /\ \E k \in Invocations("trim") :
          /\ procs[k].cmd.in = SourcePath(2)
          /\ media[SourcePath(2)].video
          /\ DimsOf(media[SourcePath(2)]) # DimsOf(media[SourcePath(1)])

\* C8: when every download, the dimension probe, every trim and the
\* concatenation succeeded, concat_videos reports success = true with the
\* output's filename and the output file still exists after the cleanup
C8_SuccessReported ==
    ( /\ op = "concat_videos"
      /\ stack = <<>>
      /\ response.kind # "cancelled"
      /\ Step("concat", 0) \in Range(steps)
      /\ result.success
      /\ result.output_path = OutputPath )
    => /\ response.kind = "ok"
       /\ response.success
       /\ response.filename = OutputPath
       /\ OutputPath \in files

----------------------------------------------------------------------------
(* Properties of append_intro_outro *)

NormalizeOf(i) ==
    {k \in Invocations("normalize") :
        procs[k].cmd.in = inputs[i] /\ procs[k].cmd.out = NormalizedPath(i)}

\* C7: the target of append_intro_outro is the main video's dimensions;
\* each input, in the order intro, main, outro, is normalized to it by
\* its own invocation before the concat step, which is given the
\* normalized clips in that order and no input file
C7_AllNormalizedToMain ==
    op = "append_intro_outro" =>
       /\ target # NoDims => target = DimsOf(media[MainPath])
       /\ \A i \in 1..Len(inputs) :
             /\ inputs[i] = IntroPath => i = 1
             /\ inputs[i] = OutroPath => i = Len(inputs)
       /\ \A k \in Invocations("normalize") :
             /\ <<procs[k].cmd.w, procs[k].cmd.h>> = DimsOf(media[MainPath])
             /\ \E i \in 1..Len(inputs) : k \in NormalizeOf(i)
       /\ \A k1, k2 \in Invocations("normalize") :
             k1 < k2 => procs[k1].cmd.out.n < procs[k2].cmd.out.n
       /\ manifest # <<>> =>
             /\ manifest = [i \in 1..Len(inputs) |-> NormalizedPath(i)]
             /\ \A i \in 1..Len(inputs) :
                   \E k \in NormalizeOf(i) :
                      /\ Succeeded(k)
                      /\ \A c \in Invocations("concat_copy") \cup Invocations("concat_reencode") :
                            k < c

C7_Witness ==
    /\ op = "append_intro_outro"
    /\ Len(manifest) = 3
    /\ media[IntroPath].video
    /\ DimsOf(media[IntroPath]) # DimsOf(media[MainPath])
    /\ Invocations("concat_copy") # {}

----------------------------------------------------------------------------
(* Properties of the subtitle script and of _wrap_caption_text *)

\* the captions with text left after whitespace normalization and end > start
ValidCaptions ==
    SelectSeq(captions, LAMBDA c : Cleaned(c.text) # <<>> /\ c.end > c.start)

\* C9: a caption with end <= start or blank text produces no Dialogue
\* event and does not make the operation fail; every other caption
\* produces exactly one Dialogue event, in the input order
C9_OneEventPerValidCaption ==
    op = "add_captions_to_video" =>
       /\ response.kind = "returned" => response.result.error # ValueErrorText
       /\ script.written =>
             /\ Len(script.events) = Len(ValidCaptions)
             /\ \A i \in 1..Len(script.events) :
                   /\ script.events[i].start = _format_ass_time(ValidCaptions[i].start)
                   /\ script.events[i].end = _format_ass_time(ValidCaptions[i].end)

\* C10: for every text and every max_chars >= 1, _wrap_caption_text
\* returns at most 2 lines, each of length <= max_chars
C10_TwoLinesWithinWidth ==
    wout.done =>
       /\ ~wout.raised
       /\ Len(wout.lines) <= 2
       /\ \A i \in 1..Len(wout.lines) : Len(wout.lines[i]) <= wmax

----------------------------------------------------------------------------
(* Properties of the caption style *)

\* C11: for every height >= 500 and every accepted font_size (omitted or
\* 8..72) the resolved style has font size in [8,32], border width in
\* [2,10] and box padding in [10,20]
C11_StyleWithinBounds ==
    (op = "resolve_style" /\ fout.done /\ fin.height >= 500) =>
       /\ fout.style.font_size \in 8..32
       /\ fout.style.border_width \in 2..10
       /\ fout.style.box_padding \in 10..20

----------------------------------------------------------------------------
(* Properties of _format_ass_time *)

\* the characters of a rendered time in code point order
CodeOrder == <<".", "/", "0", "1", "2", "3", "4", "5", "6", "7", "8", "9", ":">>
CodeOf(c) == CHOOSE i \in 1..Len(CodeOrder) : CodeOrder[i] = c

RECURSIVE LexLeq(_, _)
\* x <= y as strings
LexLeq(x, y) ==
    IF x = <<>> THEN TRUE
    ELSE IF y = <<>> THEN FALSE
    ELSE IF CodeOf(x[1]) # CodeOf(y[1]) THEN CodeOf(x[1]) < CodeOf(y[1])
    ELSE LexLeq(Tail(x), Tail(y))

\* C12: for all non-negative times a < b the string _format_ass_time(a)
\* is lexicographically <= the string _format_ass_time(b)
C12_FormatMonotonic ==
    (op = "_format_ass_time" /\ fout.done /\ 0 <= fin.a /\ fin.a < fin.b) =>
       LexLeq(fout.a, fout.b)

\* str reads H:MM:SS.CC, with fields below 60, 60 and 100, and writes
\* the time ms rounded to the nearest centisecond (negative: zero)
RendersNearest(str, ms) ==
    LET n == Len(str)
        H == SubSeq(str, 1, n - 9)
        MM == SubSeq(str, n - 7, n - 6)
        SS == SubSeq(str, n - 4, n - 3)
        CC == SubSeq(str, n - 1, n)
        value == NumberOf(H) * 360000 + NumberOf(MM) * 6000
                     + NumberOf(SS) * 100 + NumberOf(CC)
    IN /\ n >= 10
       /\ str[n - 8] = ":" /\ str[n - 5] = ":" /\ str[n - 2] = "."
       /\ \A i \in (1..n) \ {n - 8, n - 5, n - 2} : IsDigit(str[i])
       /\ Len(H) > 1 => H[1] # "0"
       /\ NumberOf(MM) < 60 /\ NumberOf(SS) < 60 /\ NumberOf(CC) < 100
       /\ 10 * value - Max(0, ms) \in (0 - 5)..5
       /\ ms < 0 => str = <<"0", ":", "0", "0", ":", "0", "0", ".", "0", "0">>

\* C13: _format_ass_time renders H:MM:SS.CC with MM < 60, SS < 60,
\* CC < 100, whose value in centiseconds is the input rounded to the
\* nearest centisecond, carries propagated; a negative input renders as
\* 0:00:00.00
C13_RendersNearestCentisecond ==
    (op = "_format_ass_time" /\ fout.done) =>
       RendersNearest(fout.a, fin.a) /\ RendersNearest(fout.b, fin.b)

\* 59.996 s carries into the minutes, a negative time renders as zero
C13_Witness ==
    /\ op = "_format_ass_time"
    /\ fout.done
    /\ fin.a = 59996
    /\ fout.a = <<"0", ":", "0", "1", ":", "0", "0", ".", "0", "0">>
    /\ fin.b < 0
    /\ fout.b = <<"0", ":", "0", "0", ":", "0", "0", ".", "0", "0">>

----------------------------------------------------------------------------
(* Properties of _ass_color_with_alpha *)

IsHex(c) == \E i \in 1..16 : LowerHexChars[i] = c \/ UpperHexChars[i] = c

\* the part of a specification before its last @, without the
\* surrounding spaces, in lower case
BaseOf(color) ==
    LET ats == {i \in 1..Len(color) : color[i] = "@"}
    IN IF ats = {} THEN Lower(Strip(color))
       ELSE Lower(Strip(SubSeq(color, 1, (CHOOSE i \in ats : \A j \in ats : j <= i) - 1)))

\* the six hex digits RRGGBB a base stands for, <<>> when it is neither
\* a named colour nor six hex digits with or without #
RGBOf(base) ==
    IF IsNamed(base) THEN NamedHex(base)
    ELSE IF Len(base) = 6 /\ \A c \in Chars(base) : IsHex(c) THEN base
    ELSE IF Len(base) = 7 /\ base[1] = "#" /\ \A c \in Chars(Tail(base)) : IsHex(c)
      THEN Tail(base)
    ELSE <<>>

\* C14: _ass_color_with_alpha returns &H followed by exactly 8 hex
\* digits in alpha, blue, green, red order; a named colour or 6 hex
\* digits (with or without #) has its RR,GG,BB mapped to BB,GG,RR; every
\* other specification returns the fallback unchanged
C14_AssColorEncoding ==
    (op = "_ass_color_with_alpha" /\ fout.done) =>
       LET rgb == RGBOf(BaseOf(fin.color))
           out == fout.value
       IN /\ Len(out) = 10
          /\ out[1] = "&" /\ out[2] = "H"
          /\ \A i \in 3..10 : IsHex(out[i])
          /\ rgb # <<>> =>
                SubSeq(out, 5, 10) = Upper(SubSeq(rgb, 5, 6) \o SubSeq(rgb, 3, 4)
                                              \o SubSeq(rgb, 1, 2))
          /\ rgb = <<>> => out = fin.fallback

----------------------------------------------------------------------------
(* Properties of the aspect and crop operations *)

\* C15: convert_aspect_ratio on a 1920x1080 source with ratio 1:1
\* computes the target 1080x1080 and builds a pad filter with the
\* requested background colour
C15_SquareOf1080p ==
    ( /\ op = "convert_aspect_ratio"
      /\ DimsOf(media[InputPath]) = <<1920, 1080>>
      /\ media[InputPath].video
      /\ ratio = "1:1" )
    => /\ \A k \in Invocations("aspect") : procs[k].cmd.w = 1080 /\ procs[k].cmd.h = 1080
       /\ cmd.kind = "aspect" =>
             /\ vf.kind = "pad"
             /\ vf.w = 1080 /\ vf.h = 1080
             /\ vf.color = background_color

\* v is within 1 of the value e, or is below 2
NearEven(e, v) == e % 2 = 0 /\ e >= 2 /\ (v >= 2 => e - v \in {0 - 1, 0, 1})

\* C16: every pad target of convert_aspect_ratio and every crop
\* dimension of smart_crop_video given to the renderer is an even
\* integer >= 2, within 1 of the computed value when that is >= 2
C16_EvenDimensions ==
    /\ \A k \in Invocations("aspect") :
          LET v == AspectTarget(media[InputPath].w, media[InputPath].h, RatioOf(ratio))
          IN NearEven(procs[k].cmd.w, v[1]) /\ NearEven(procs[k].cmd.h, v[2])
    /\ \A k \in Invocations("crop") :
          LET v == CropTarget(media[InputPath].w, media[InputPath].h, RatioOf(ratio))
          IN NearEven(procs[k].cmd.w, v[1]) /\ NearEven(procs[k].cmd.h, v[2])
    /\ cmd.kind \in {"aspect", "crop"} => vf.w = cmd.w /\ vf.h = cmd.h

\* a 7x3 source cropped to 1:1: the computed 3x3 is given as 2x2
C16_Witness ==
    /\ op = "crop_vertical_video"
    /\ ratio = "1:1"
    /\ DimsOf(media[InputPath]) = <<7, 3>>
    /\ \E k \in Invocations("crop") : procs[k].cmd.w = 2 /\ procs[k].cmd.h = 2

\* C17: in the aspect and crop endpoints a ratio other than 9:16, 1:1,
\* 16:9 spawns no process at all, the request ends with the 400 of the
\* ratio validation once the upload was saved, and the saved upload is
\* gone when it ends
C17_UnknownRatioRejected ==
    ( /\ op \in {"convert_aspect_ratio", "crop_vertical_video"}
      /\ ratio \notin {"9:16", "1:1", "16:9"} )
    => /\ procs = <<>>
       /\ stack = <<>> =>
             /\ response.kind = "error"
             /\ InputPath \notin files
             /\ Step("save", 0) \in Range(steps) =>
                   /\ response.exc.status = 400
                   /\ response.exc.msg = "Aspect ratio must be one of: 9:16, 1:1, 16:9"

C17_Witness ==
    /\ op = "crop_vertical_video"
    /\ ratio = "4:3"
    /\ stack = <<>>
    /\ Step("save", 0) \in Range(steps)
    /\ response.exc.status = 400
    /\ procs = <<>>

----------------------------------------------------------------------------
(* Properties of the upload step and of the probes *)

UploadingOps == {"concat_videos"} \cup TransformOps

\* C18: when the transform succeeded, the upload was requested and the
\* upload failed, the operation still reports success with empty key
\* and URL, and the output file remains
C18_UploadFailureKeepsSuccess ==
    ( /\ op \in UploadingOps
      /\ stack = <<>>
      /\ Step("upload", 0) \in Range(steps)
      /\ upRet = NoUpload )
    => /\ response.kind = "ok"
       /\ response.success
       /\ response.r2 = NoUpload
       /\ OutputPath \in files

\* C19: when a transform succeeded and upload was requested, the upload
\* adapter was invoked and the response carries its (key, url)
C19_UploadedWhenRequested ==
    ( /\ op \in UploadingOps
      /\ upload
      /\ response.kind = "ok" )
    => /\ Step("upload", 0) \in Range(steps)
       /\ upRet # NoUpload
       /\ response.r2 = upRet

\* the probe k exited non-zero or printed something that is not JSON
ProbeFailed(k) ==
    /\ procs[k].cmd.kind = "ffprobe"
    /\ procs[k].status = "exited"
    /\ procs[k].code # 0 \/ procs[k].stdout # "json"

\* C20: after a failed probe the operation spawns no renderer, and
\* unless the request was cancelled it ends in a failure given to the
\* caller
C20_ProbeFailureSurfaced ==
    \A k \in 1..Len(procs) :
       (ProbeFailed(k) /\ response.kind # "cancelled") =>
          /\ \A j \in (k + 1)..Len(procs) : procs[j].cmd.kind = "ffprobe"
          /\ stack = <<>> =>
                \/ response.kind = "error"
                \/ response.kind = "returned" /\ ~response.result.success

----------------------------------------------------------------------------
(* Properties of the rate limiter *)

\* ts lies in the half-open interval (t - window_seconds, t]
InWindow(ts, t) == t - RATE_LIMIT_WINDOW < ts /\ ts <= t

\* the requests of the key let through before the i-th one whose
\* timestamps lie within the window that precedes it
AllowedBefore(i) ==
    {j \in 1..(i - 1) : /\ allowed_log[j].key = allowed_log[i].key
                        /\ allowed_log[j].ts > allowed_log[i].ts - RATE_LIMIT_WINDOW}

\* C21: a request is let through only if fewer than max_requests requests
\* of its key were let through with timestamps in the window before it,
\* its `remaining` is max_requests minus the requests let through in the
\* window, itself included, and in no interval (t - window_seconds, t]
\* are more than max_requests requests of one key let through
C21_WindowNeverExceeded ==
    /\ \A i \in 1..Len(allowed_log) :
          /\ Cardinality(AllowedBefore(i)) < allowed_log[i].max_requests
          /\ allowed_log[i].remaining =
                allowed_log[i].max_requests - (Cardinality(AllowedBefore(i)) + 1)
    /\ \A key \in RateKeys, t \in 0..MaxClock :
          Cardinality({i \in 1..Len(allowed_log) :
                          allowed_log[i].key = key /\ InWindow(allowed_log[i].ts, t)})
             <= IF key.kind = "upload" THEN RATE_LIMIT_UPLOAD_REQUESTS ELSE RATE_LIMIT_REQUESTS

\* a request is refused while another request of the same key waits for
\* the lock, the key's window being full
C21_Witness ==
    \E s1, s2 \in Slots :
       /\ s1 # s2
       /\ reqs[s1].status = TooManyRequests
       /\ reqs[s2].pc = "is_allowed:lock"
       /\ RateKeyOf(reqs[s1]) = RateKeyOf(reqs[s2])
       /\ \E i \in 1..Len(allowed_log) :
             /\ allowed_log[i].key = RateKeyOf(reqs[s1])
             /\ allowed_log[i].remaining = 0
             /\ InWindow(allowed_log[i].ts, now)

\* the request let through is a POST to an endpoint that takes an
\* uploaded file
FileUpload(e) == e.file_upload

\* C22: every POST to an endpoint that takes an uploaded file is counted
\* under the upload key of its API key with the limit
\* RATE_LIMIT_UPLOAD_REQUESTS, so that no API key has more than that many
\* such requests let through in one window
C22_FileUploadsUnderUploadLimit ==
    /\ \A i \in 1..Len(allowed_log) :
          FileUpload(allowed_log[i]) =>
             /\ allowed_log[i].key.kind = "upload"
             /\ allowed_log[i].max_requests = RATE_LIMIT_UPLOAD_REQUESTS
    /\ \A h \in HeaderValues, t \in 0..MaxClock :
          Cardinality({i \in 1..Len(allowed_log) :
                          /\ FileUpload(allowed_log[i])
                          /\ allowed_log[i].key.api_key = RateApiKey(h)
                          /\ InWindow(allowed_log[i].ts, t)})
             <= RATE_LIMIT_UPLOAD_REQUESTS

----------------------------------------------------------------------------
(* Properties of verify_api_key *)

\* the request was answered by the endpoint or its dependency
Answered(r) == r.pc = "done" /\ r.status # TooManyRequests

\* C23: a request that reaches an /api/v1 endpoint without an API key is
\* answered 401 'Missing API key', one with a key that is not configured
\* 403 'Invalid API key'; verify_api_key returns the key only when it is
\* configured; for a rejected request no upload is saved and no process
\* is spawned
C23_KeyRequired ==
    \A s \in Slots :
       LET r == reqs[s]
       IN /\ (Answered(r) /\ StartsWith(r.path, <<"api", "v1">>)) =>
                /\ Missing(r.header) =>
                      /\ r.status = HTTP_401_UNAUTHORIZED
                      /\ r.detail = "Missing API key. Include 'X-API-Key' header."
                /\ (~Missing(r.header) /\ r.header \notin api_keys_list) =>
                      /\ r.status = HTTP_403_FORBIDDEN
                      /\ r.detail = "Invalid API key"
                /\ r.header \in api_keys_list => r.status = 200
          /\ r.verified # "" => r.verified = r.header /\ r.header \in api_keys_list
          /\ r.status \in {HTTP_401_UNAUTHORIZED, HTTP_403_FORBIDDEN, TooManyRequests} =>
                ~r.saved /\ ~r.spawned /\ r.verified = ""

C23_Witness ==
    \E s \in Slots :
       /\ reqs[s].pc = "done"
       /\ reqs[s].path = ApiPath(<<"videos", "watermark">>)
       /\ reqs[s].header = "bad"
       /\ reqs[s].status = HTTP_403_FORBIDDEN
       /\ arrivals = 2
       /\ Len(allowed_log) = 2

----------------------------------------------------------------------------
(* Properties of download_video_from_url *)

\* C24: a download that returned has written at most
\* max_upload_size_bytes bytes to its file; a download that failed
\* (scheme, extension, status >= 400, declared or streamed size over the
\* cap, network error) raised an HTTPException to the caller and left no
\* file at its path
C24_CapEnforcedNothingLeft ==
    /\ download.pc = "returned" =>
          /\ download.exists
          /\ download.written <= max_upload_size_bytes
          /\ download.written = download.total_size
          /\ download.raised = 0
    /\ download.pc = "raised" =>
          /\ ~download.exists
          /\ download.raised \in {HTTP_400_BAD_REQUEST, HTTP_413_REQUEST_ENTITY_TOO_LARGE,
                                  HTTP_502_BAD_GATEWAY}
    /\ download.exists => download.written <= max_upload_size_bytes

\* the stream went over the cap after bytes had been written
C24_Witness ==
    /\ download.pc = "raised"
    /\ download.raised = HTTP_413_REQUEST_ENTITY_TOO_LARGE
    /\ download.total_size > max_upload_size_bytes
    /\ download.chunks > 1
    /\ download.content_length = NoLength

----------------------------------------------------------------------------
(* Properties of the invocations of one operation *)

\* the k-th invocation failed: no process, a non-zero exit or a timeout
Failed(k) ==
    \/ procs[k].status \in {"not_spawned", "killed"}
    \/ procs[k].status = "exited" /\ procs[k].code # 0

\* a step records at most one invocation, and only the step of a
\* run_command call that creates its process, which the call then leaves
OneProcessPerCall ==
    Len(procs') # Len(procs) =>
       /\ Len(procs') = Len(procs) + 1
       /\ At("run_command:create_subprocess_exec")
       /\ stack' # stack
       /\ \A k \in 1..Len(procs) : procs'[k].cmd = procs[k].cmd

\* C25: each run_command call spawns at most one process; within one
\* operation a command that failed or timed out is never invoked again,
\* and the only invocation that follows a failed one is the re-encode
\* command after the failed stream copy, which runs at most once
C25_NoRetry ==
    [][ /\ OneProcessPerCall
        /\ \A k1, k2 \in 1..Len(procs') :
              (k1 < k2 /\ Failed(k1)') =>
                 procs'[k2].cmd # procs'[k1].cmd
        /\ \A k \in 1..Len(procs) :
              (k < Len(procs') /\ Failed(k)) =>
                 /\ procs[k].cmd.kind = "concat_copy"
                 /\ procs'[k + 1].cmd.kind = "concat_reencode"
        /\ Cardinality({k \in 1..Len(procs') : procs'[k].cmd.kind = "concat_reencode"}) <= 1 ]_vars

\* C26: every command trim_video_segment and _normalize_video_clip build
\* maps one audio stream: the first audio stream of the source when the
\* source has one, else that of the silent source added as second input;
\* the silent source and -shortest are there exactly when the source has
\* no audio stream
C26_OneAudioStream ==
    \A k \in Invocations("trim") \cup Invocations("normalize") :
       LET c == procs[k].cmd
       IN /\ c.map_audio \in {"0:a:0", "1:a:0"}
          /\ c.map_audio = "0:a:0" <=> media[c.in].audio
          /\ c.silent <=> ~media[c.in].audio
          /\ c.shortest <=> ~media[c.in].audio

C26_Witness ==
    /\ \E k \in Invocations("trim") : ~media[procs[k].cmd.in].audio /\ Succeeded(k)
    /\ \E k \in Invocations("trim") : media[procs[k].cmd.in].audio /\ Succeeded(k)

----------------------------------------------------------------------------
(* Properties of FFMPEGResult *)

\* an error detail exactly when success is false, an output path exactly
\* when it is true
WellFormed(r) ==
    /\ r.success <=> r.error = NoErr
    /\ r.success <=> r.output_path # NoPath

\* the result r is returned by the step: when it reports success the last
\* process exited with code 0 and had r's output path as its output, and
\* the file exists
Earned(r) ==
    r.success =>
       /\ Len(procs') > 0
       /\ LastProcNext.status = "exited"
       /\ LastProcNext.code = 0
       /\ LastProcNext.cmd.out = r.output_path
       /\ r.output_path \in files'

\* C27: every FFMPEGResult a service method returns has an error detail
\* exactly when success is false and an output path exactly when success
\* is true, and reports success only when the process exited with code 0
\* and the output file exists
C27_ResultWellFormed ==
    [][ /\ result' # result => WellFormed(result') /\ Earned(result')
        /\ (response' # response /\ response'.kind = "returned") =>
              WellFormed(response'.result) /\ Earned(response'.result) ]_vars

\* the fallback of concat_segments made append_intro_outro succeed
C27_Witness ==
    /\ response.kind = "returned"
    /\ response.result = FFMPEGResult(TRUE, OutputPath, NoErr)
    /\ LastProc.cmd.kind = "concat_reencode"
    /\ \E k \in Invocations("normalize") : Succeeded(k)

----------------------------------------------------------------------------
(* Properties of the order of concat_videos *)

\* the trim of segment i ran to exit code 0 and its output exists in fs
Trimmed(i, ps, fs) ==
    /\ \E k \in 1..Len(ps) :
          /\ ps[k].cmd.kind = "trim"
          /\ ps[k].cmd.out = SegmentPath(i)
          /\ ps[k].status = "exited"
          /\ ps[k].code = 0
    /\ SegmentPath(i) \in fs

\* the step s is started after the steps before: the first download opens
\* the request, a later download follows the succeeded trim of the segment
\* before it, and concat follows the succeeded trim of every segment
InOrder(s) ==
    /\ s.step = "download" /\ s.n = 1 => steps = <<>>
    /\ s.step = "download" /\ s.n > 1 =>
          /\ steps[Len(steps)] = Step("trim", s.n - 1)
          /\ result.success
          /\ Trimmed(s.n - 1, procs, files)
    /\ s.step \in {"probe", "trim"} =>
          \E j \in 1..Len(steps) : steps[j] = Step("download", s.n)
    /\ s.step = "concat" =>
          /\ \A i \in 1..nseg : Trimmed(i, procs, files)
          /\ \A i \in 1..nseg : \E j \in 1..Len(steps) : steps[j] = Step("download", i)

\* C28: concat_videos handles its segments one after the other in input
\* order: the download of a segment starts only after the trim of the
\* segment before it succeeded, concat_segments runs only after every
\* segment was trimmed successfully, and the manifest lists the trimmed
\* segments in input order
C28_SequentialInOrder ==
    [][op = "concat_videos" =>
         /\ steps' # steps =>
               /\ steps' = Append(steps, steps'[Len(steps')])
               /\ InOrder(steps'[Len(steps')])
         /\ manifest' # manifest =>
               /\ steps'[Len(steps')] = Step("concat", 0)
               /\ manifest' = [i \in 1..nseg |-> SegmentPath(i)]]_vars

\* two segments were downloaded and trimmed in turn and their manifest
\* was written
C28_Witness ==
    /\ op = "concat_videos"
    /\ nseg = 2
    /\ manifest = <<SegmentPath(1), SegmentPath(2)>>
    /\ \E a, b, c, d \in 1..Len(steps) :
          /\ a < b /\ b < c /\ c < d
          /\ steps[a] = Step("trim", 1)
          /\ steps[b] = Step("download", 2)
          /\ steps[c] = Step("trim", 2)
          /\ steps[d] = Step("concat", 0)

----------------------------------------------------------------------------
(* Properties of the phases of the multi-step operations *)

MultiStep == {"concat_videos", "append_intro_outro"}

\* the phase a started step belongs to: the first download and the probe
\* of the target dimensions are PROBING, the trim or normalize of a
\* segment and the download of a later segment NORMALIZING, concat_segments
\* CONCATENATING, and the upload of the output follows it
PhaseOfStep(s) ==
    CASE s.step = "probe" -> "PROBING"
      [] s.step = "download" /\ s.n = 1 -> "PROBING"
      [] s.step = "download" /\ s.n > 1 -> "NORMALIZING"
      [] s.step \in {"trim", "normalize"} -> "NORMALIZING"
      [] s.step = "concat" -> "CONCATENATING"
      [] OTHER -> "UPLOADING"

\* the phase of the operation: ended with a response, or not started, or
\* the phase of the last step it started
Phase ==
    IF stack = <<>>
      THEN IF response.kind = "ok" \/ (response.kind = "returned" /\ response.result.success)
             THEN "DONE" ELSE "FAILED"
      ELSE IF steps = <<>> THEN "PENDING" ELSE PhaseOfStep(steps[Len(steps)])

Ended == Phase \in {"DONE", "FAILED"}

PhaseRank(p) ==
    CASE p = "PENDING" -> 0
      [] p = "PROBING" -> 1
      [] p = "NORMALIZING" -> 2
      [] p = "CONCATENATING" -> 3
      [] p = "UPLOADING" -> 4
      [] OTHER -> 5

\* a step of a multi-step operation keeps or advances its phase, and
\* leaves an ended operation as it ended
Forward ==
    op \in MultiStep =>
       /\ PhaseRank(Phase') >= PhaseRank(Phase)
       /\ Ended => Phase' = Phase

\* C29: concat_videos and append_intro_outro move only forward through
\* probing, per-segment normalizing and concatenating, stay ended once
\* they have ended, and, with every download ending or raising and every
\* process exiting or running into its timeout, always end as DONE or
\* FAILED
C29_ForwardAndEnds ==
    /\ [][Forward]_vars
    /\ (op \in MultiStep) ~> Ended

\* concat_videos went through every phase and ended as DONE after a
\* process that ran into its timeout in the stream copy
C29_Witness ==
    /\ op = "concat_videos"
    /\ Phase = "DONE"
    /\ upload
    /\ \E k \in Invocations("concat_copy") : procs[k].status = "killed"
    /\ \E a, b, c, d \in 1..Len(steps) :
          /\ a < b /\ b < c /\ c < d
          /\ PhaseOfStep(steps[a]) = "PROBING"
          /\ PhaseOfStep(steps[b]) = "NORMALIZING"
          /\ PhaseOfStep(steps[c]) = "CONCATENATING"
          /\ PhaseOfStep(steps[d]) = "UPLOADING"

----------------------------------------------------------------------------
(* Properties of what run_command hands to its caller *)

\* run_command ends, from either of its awaits, and its caller is resumed
RunCommandEnds ==
    /\ Len(stack) > 0
    /\ Top \in {"run_command:create_subprocess_exec", "run_command:wait_for"}
    /\ stack' = Below

\* C30: run_command raises nothing but the cancellation of its task, and
\* otherwise returns a (success, stdout, stderr) triple: (false, '', text
\* of the exception) when the process could not be spawned, success =
\* false with the whole stderr of the process when it exited non-zero,
\* success = false with the timeout message when it ran into the timeout,
\* and success = true only for exit code 0
C30_ReturnsTripleNeverRaises ==
    [][RunCommandEnds =>
         /\ exc' # NoExc => exc' = CancelledError /\ rcRet' = rcRet
         /\ exc' = NoExc =>
               /\ DOMAIN rcRet' = {"success", "stdout", "stderr"}
               /\ rcRet'.success \in BOOLEAN
               /\ LastProcNext.cmd = cmd
               /\ LastProcNext.status \in {"not_spawned", "exited", "killed"}
               /\ LastProcNext.status = "not_spawned" =>
                     rcRet' = [success |-> FALSE, stdout |-> "", stderr |-> ExceptionText]
               /\ (LastProcNext.status = "exited" /\ LastProcNext.code # 0) =>
                     /\ ~rcRet'.success
                     /\ rcRet'.stderr = StderrOf(Len(procs'))
               /\ LastProcNext.status = "killed" =>
                     /\ ~rcRet'.success
                     /\ rcRet'.stderr = TimeoutMessage(FFMPEG_TIMEOUT)
               /\ rcRet'.success =>
                     LastProcNext.status = "exited" /\ LastProcNext.code = 0]_vars

\* ffprobe could not be started and get_video_info is resumed with the
\* triple of the exception, after an earlier command of the request had
\* exited with code 0
C30_Witness ==
    /\ Len(procs) > 1
    /\ LastProc.status = "not_spawned"
    /\ LastProc.cmd.kind = "ffprobe"
    /\ rcRet = [success |-> FALSE, stdout |-> "", stderr |-> ExceptionText]
    /\ At("get_video_info:run_command")
    /\ exc = NoExc
    /\ \E k \in 1..(Len(procs) - 1) : Succeeded(k)

====
